---- MODULE Spec2Model ----
(***************************************************************************)
(* A model of synapse_room_preview: the per-room TTL cache of              *)
(* get_room_preview.py with its reactive invalidation (__init__.py), the   *)
(* latest-state aggregation query and its fold into the per-room map, and  *)
(* the per-user request log of is_rate_limited.py.                         *)
(*                                                                         *)
(* get_room_preview is a coroutine on a single-threaded reactor: the code  *)
(* between two awaits runs without interleaving, so every action below is  *)
(* one such segment, and the awaits (membership query, database query) are *)
(* the places where other requests, new events and the clock interleave.   *)
(* time.time() is read as one value per segment.                           *)
(***************************************************************************)
EXTENDS Integers, Sequences, FiniteSets, TLC

\* ------------------------------------------------------------------ bounds

\* The clock advances in steps of TimeStep seconds up to MaxTime.
TimeStep == 150
MaxTime == 300
\* At most MaxEvents events are persisted in the event log.
MaxEvents == 2
\* At most MaxUndelivered persisted events wait for their on_new_event call.
MaxUndelivered == 1
\* The rate limiter's clock runs from 0 to MaxRateTime seconds.
MaxRateTime == 3
\* burst_duration_seconds and requests_per_burst range over -1..MaxBurst.
MaxBurst == 2
\* At most MaxRequests calls of is_rate_limited are made.
MaxRequests == 5
\* At most MaxLiveRequests calls of is_rate_limited are made next to the
\* callers of get_room_preview whose termination is checked.
MaxLiveRequests == 1

\* ------------------------------------------------------- program constants

CACHE_TTL_SECONDS == 300

EVENT_TYPE_M_ROOM_JOIN_RULES == "m.room.join_rules"
EVENT_TYPE_M_ROOM_MEMBER == "m.room.member"
JOIN_RULE_CONTENT_KEY == "join_rule"
MEMBERSHIP_CONTENT_KEY == "membership"
MEMBERSHIP_SUMMARY_KEY == "membership_summary"

\* ----------------------------------------------------------------- domains

Rooms == {"!r1", "!r2"}
Procs == {1, 2}
\* Python's None where a string may stand (a missing state key).
None == "None"

\* Dictionaries are functions with a finite domain.
EmptyDict == [x \in {} |-> x]
DictPut(d, k, v) == [x \in (DOMAIN d) \cup {k} |-> IF x = k THEN v ELSE d[x]]
DictPop(d, k) == [x \in (DOMAIN d) \ {k} |-> d[x]]
Range(s) == {s[i] : i \in DOMAIN s}

VARIABLES
    now,          \* time.time()
    config,       \* SynapseRoomPreviewConfig and the database engine in use
    events,       \* the event log (events, state_events, event_json)
    undelivered,  \* persisted events whose on_new_event has not run yet
    room_cache,   \* _room_cache: room id -> (data, timestamp); data is a reference
    heap,         \* the dict objects that room_cache and the calls refer to
    calls,        \* get_room_preview calls in flight, one per slot
    request_log,  \* request_log of is_rate_limited
    members,      \* the host's current m.room.member state: room -> user -> membership
    failing,      \* the rooms for which api.get_room_state raises
    http,         \* the HTTP request RoomPreview is rendering, and its response
    hist          \* history of what was observed (read by the properties only)

vars == <<now, config, events, undelivered, room_cache, heap, calls,
          request_log, members, failing, http, hist>>

\* --------------------------------------------------------------- event log

\* Event types the host may persist: a configured (tracked) type, a state
\* event type that is not configured, and a timeline (non-state) type.
TRACKED_TYPE == "pangea.activity_plan"
UNTRACKED_TYPE == "m.room.topic"
EventTypes == {TRACKED_TYPE, UNTRACKED_TYPE}
StateKeys == {""}

\* One row of events JOIN state_events JOIN event_json: the event as the
\* host persisted it. A timeline event has no state_events row.
NewEventRecord(id, r, t, k, isState, ts) ==
    [ event_id |-> id, room_id |-> r, type |-> t,
      state_key |-> IF isState THEN k ELSE None,
      is_state |-> isState, origin_server_ts |-> ts,
      content |-> [body |-> id] ]

\* ej.json: the JSON text of the event, as json.loads gives it back.
EventJson(e) ==
    [ event_id |-> e.event_id, room_id |-> e.room_id, type |-> e.type,
      state_key |-> e.state_key, origin_server_ts |-> e.origin_server_ts,
      content |-> e.content ]

\* The collation order of the text columns in ORDER BY.
TextRank(s) ==
    CASE s = "" -> 0
      [] s = "!r1" -> 1
      [] s = "!r2" -> 2
      [] s = "@a" -> 3
      [] s = "@b" -> 4
      [] s = "default" -> 5
      [] s = EVENT_TYPE_M_ROOM_JOIN_RULES -> 6
      [] s = UNTRACKED_TYPE -> 7
      [] s = "pangea.activity_plan" -> 8
      [] s = "pangea.activity_roles" -> 9
      [] s = "pangea.course_plan" -> 10
      [] OTHER -> 11

\* GROUP of a row: the (room_id, type, state_key) triple.
SameGroup(a, b) ==
    a.room_id = b.room_id /\ a.type = b.type /\ a.state_key = b.state_key

\* ORDER BY e.room_id, e.type, e.state_key, e.origin_server_ts DESC:
\* a may stand before b.
OrderBy(a, b) ==
    IF a.room_id # b.room_id THEN TextRank(a.room_id) < TextRank(b.room_id)
    ELSE IF a.type # b.type THEN TextRank(a.type) < TextRank(b.type)
    ELSE IF a.state_key # b.state_key
         THEN TextRank(a.state_key) < TextRank(b.state_key)
    ELSE a.origin_server_ts >= b.origin_server_ts

\* WHERE e.room_id IN (...) AND e.type IN (...), over the join with
\* state_events (state events only; se.type = e.type and the state keys
\* agree because se and e are the same event).
\* Mutant: the query selects the state events of every type.
WhereClause_AnyType(log, rooms_to_fetch, types) ==
    { e \in Range(log) : /\ e.is_state
                         /\ e.room_id \in Range(rooms_to_fetch) }

WhereClause(log, rooms_to_fetch, types) ==
    { e \in Range(log) : /\ e.is_state
                         /\ e.room_id \in Range(rooms_to_fetch)
                         /\ e.type \in Range(types) }

\* Every order of the selected rows that ORDER BY allows: rows that tie on
\* all four sort keys come in an order the database picks.
OrderedRows(S) ==
    { s \in [1..Cardinality(S) -> S] :
        /\ \A i, j \in 1..Cardinality(S) : i # j => s[i] # s[j]
        /\ \A i, j \in 1..Cardinality(S) : i < j => OrderBy(s[i], s[j]) }

\* SELECT DISTINCT ON (room_id, type, state_key): the first row of each group.
DistinctOn(s) ==
    LET keep == { i \in 1..Len(s) : i = 1 \/ ~SameGroup(s[i - 1], s[i]) }
        nth[n \in 0..Len(s)] ==
            IF n = 0 THEN 0
            ELSE CHOOSE i \in keep : i > nth[n - 1] /\
                     \A j \in keep : j > nth[n - 1] => i <= j
    IN  [n \in 1..Cardinality(keep) |-> s[nth[n]]]

SqliteQuery(log, rooms_to_fetch, types) ==
    OrderedRows(WhereClause(log, rooms_to_fetch, types))

PostgresQuery(log, rooms_to_fetch, types) ==
    { DistinctOn(s) : s \in OrderedRows(WhereClause(log, rooms_to_fetch, types)) }

\* The result sets db_pool.execute may return for the branch in use.
ExecuteQuery(engine, log, rooms_to_fetch, types) ==
    IF engine = "sqlite3"
    THEN SqliteQuery(log, rooms_to_fetch, types)
    ELSE PostgresQuery(log, rooms_to_fetch, types)

\* Mutant: only a missing state key becomes "default".
NormalizeKey_MissingOnly(state_key) ==
    IF state_key # None THEN state_key ELSE "default"

\* Convert None or empty string state keys to "default".
NormalizeKey(state_key) ==
    IF state_key # None /\ state_key # "" THEN state_key ELSE "default"

\* Mutant: the event is passed on with its whole content.
_filter_join_rules_content_Unfiltered(event_data) == event_data

\* Filter m.room.join_rules content to only include the join_rule key.
_filter_join_rules_content(event_data) ==
    LET content == event_data.content
        filtered_content ==
            [k \in (DOMAIN content) \cap {JOIN_RULE_CONTENT_KEY} |-> content[k]]
    IN  [event_data EXCEPT !.content = filtered_content]

\* One iteration of "for row in rows": the row folded into fetched_room_data.
ProcessRow(fetched_room_data, row) ==
    LET room_id == row.room_id
        event_type == row.type
        d1 == IF room_id \in DOMAIN fetched_room_data
              THEN fetched_room_data
              ELSE DictPut(fetched_room_data, room_id, EmptyDict)
        d2 == IF event_type \in DOMAIN d1[room_id]
              THEN d1
              ELSE DictPut(d1, room_id, DictPut(d1[room_id], event_type, EmptyDict))
        key == NormalizeKey(row.state_key)
        event_data == IF event_type = EVENT_TYPE_M_ROOM_JOIN_RULES
                      THEN _filter_join_rules_content(EventJson(row))
                      ELSE EventJson(row)
    IN  DictPut(d2, room_id,
            DictPut(d2[room_id], event_type,
                DictPut(d2[room_id][event_type], key, event_data)))

RECURSIVE ProcessRows(_, _, _)
ProcessRows(fetched_room_data, rows, i) ==
    IF i > Len(rows) THEN fetched_room_data
    ELSE ProcessRows(ProcessRow(fetched_room_data, rows[i]), rows, i + 1)

\* fetched_room_data after the fold: every room being fetched starts empty.
FoldRows(rooms_to_fetch, rows) ==
    ProcessRows([r \in Range(rooms_to_fetch) |-> EmptyDict], rows, 1)

\* -------------------------------------------------------------- room cache

PANGEA_ACTIVITY_ROLE_STATE_EVENT_TYPE == "pangea.activity_roles"

\* A reference that refers to no object (Python's None for cached_data).
NoData == 0

\* Mutant: an entry counts as valid once it is older than the TTL.
_is_cache_valid_Inverted(timestamp, t) == t - timestamp > CACHE_TTL_SECONDS

_is_cache_valid(timestamp, t) == t - timestamp < CACHE_TTL_SECONDS

\* Mutant: reading a valid entry renews its timestamp.
_get_cached_room_Touch(cache, room_id, t) ==
    IF room_id \in DOMAIN cache
    THEN IF _is_cache_valid(cache[room_id].timestamp, t)
         THEN [data |-> cache[room_id].data,
               cache |-> [cache EXCEPT ![room_id].timestamp = t]]
         ELSE [data |-> NoData, cache |-> DictPop(cache, room_id)]
    ELSE [data |-> NoData, cache |-> cache]

\* Mutant: an expired entry is reported absent and left in the cache.
_get_cached_room_KeepsStale(cache, room_id, t) ==
    IF room_id \in DOMAIN cache /\ _is_cache_valid(cache[room_id].timestamp, t)
    THEN [data |-> cache[room_id].data, cache |-> cache]
    ELSE [data |-> NoData, cache |-> cache]

\* _get_cached_room: the data if the entry exists and is valid; an expired
\* entry is removed. Gives the returned reference and the cache afterwards.
_get_cached_room(cache, room_id, t) ==
    IF room_id \in DOMAIN cache
    THEN IF _is_cache_valid(cache[room_id].timestamp, t)
         THEN [data |-> cache[room_id].data, cache |-> cache]
         ELSE [data |-> NoData, cache |-> DictPop(cache, room_id)]
    ELSE [data |-> NoData, cache |-> cache]

\* Mutant: the entry is stored with the timestamp 0 in place of the time of
\* the store.
_cache_room_data_Epoch(cache, room_id, data, t) ==
    DictPut(cache, room_id, [data |-> data, timestamp |-> 0])

_cache_room_data(cache, room_id, data, t) ==
    DictPut(cache, room_id, [data |-> data, timestamp |-> t])

\* Mutant: an entry of age exactly TTL survives the sweep.
_cleanup_expired_cache_Exclusive(cache, t) ==
    LET expired_keys ==
            { room_id \in DOMAIN cache :
                t - cache[room_id].timestamp > CACHE_TTL_SECONDS }
    IN  [room_id \in (DOMAIN cache) \ expired_keys |-> cache[room_id]]

_cleanup_expired_cache(cache, t) ==
    LET expired_keys ==
            { room_id \in DOMAIN cache :
                t - cache[room_id].timestamp >= CACHE_TTL_SECONDS }
    IN  [room_id \in (DOMAIN cache) \ expired_keys |-> cache[room_id]]

\* Mutant: invalidating a cached room drops every entry.
invalidate_room_cache_DropsAll(cache, room_id) ==
    IF room_id \in DOMAIN cache THEN EmptyDict ELSE cache

\* Mutant: invalidating a room that is not cached drops every entry.
invalidate_room_cache_UnknownDropsAll(cache, room_id) ==
    IF room_id \in DOMAIN cache THEN DictPop(cache, room_id) ELSE EmptyDict

invalidate_room_cache(cache, room_id) == DictPop(cache, room_id)

\* The user ids of the role entries of one activity-roles event content.
RoleUserIds(content) ==
    IF "roles" \in DOMAIN content
    THEN { content.roles[x].user_id : x \in DOMAIN content.roles }
    ELSE {}

\* The user ids named by the roles of a payload.
PayloadRoleUsers(room_data) ==
    IF PANGEA_ACTIVITY_ROLE_STATE_EVENT_TYPE \in DOMAIN room_data
    THEN UNION { RoleUserIds(room_data[PANGEA_ACTIVITY_ROLE_STATE_EVENT_TYPE][k].content) :
                   k \in DOMAIN room_data[PANGEA_ACTIVITY_ROLE_STATE_EVENT_TYPE] }
    ELSE {}

\* Mutant: the summary is added whether or not the payload has the
\* activity-roles type.
_add_membership_summary_Always(room_data, membership_summary) ==
    LET user_ids_in_roles == PayloadRoleUsers(room_data)
        filtered_summary ==
            [user_id \in (DOMAIN membership_summary) \cap user_ids_in_roles
                |-> membership_summary[user_id]]
    IN  DictPut(room_data, MEMBERSHIP_SUMMARY_KEY, filtered_summary)

\* Mutant: the summary holds the whole room roster.
_add_membership_summary_Roster(room_data, membership_summary) ==
    IF PANGEA_ACTIVITY_ROLE_STATE_EVENT_TYPE \notin DOMAIN room_data
    THEN room_data
    ELSE DictPut(room_data, MEMBERSHIP_SUMMARY_KEY, membership_summary)

\* Mutant: a payload that already has a summary keeps it.
_add_membership_summary_KeepsOld(room_data, membership_summary) ==
    IF \/ PANGEA_ACTIVITY_ROLE_STATE_EVENT_TYPE \notin DOMAIN room_data
       \/ MEMBERSHIP_SUMMARY_KEY \in DOMAIN room_data
    THEN room_data
    ELSE DictPut(room_data, MEMBERSHIP_SUMMARY_KEY,
             [user_id \in (DOMAIN membership_summary)
                              \cap PayloadRoleUsers(room_data)
                 |-> membership_summary[user_id]])

\* Mutant: the roles of users whose membership is leave are removed.
_add_membership_summary_DropsLeft(room_data, membership_summary) ==
    IF PANGEA_ACTIVITY_ROLE_STATE_EVENT_TYPE \notin DOMAIN room_data
    THEN room_data
    ELSE LET activity_roles == room_data[PANGEA_ACTIVITY_ROLE_STATE_EVENT_TYPE]
             Left(u) == /\ u \in DOMAIN membership_summary
                        /\ membership_summary[u] = "leave"
             Kept(content) ==
                 [content EXCEPT !.roles =
                     [x \in { y \in DOMAIN content.roles :
                                ~Left(content.roles[y].user_id) }
                         |-> content.roles[x]]]
             pruned ==
                 [k \in DOMAIN activity_roles |->
                     [activity_roles[k] EXCEPT !.content = Kept(@)]]
             filtered_summary ==
                 [user_id \in (DOMAIN membership_summary)
                                 \cap PayloadRoleUsers(room_data)
                     |-> membership_summary[user_id]]
         IN  DictPut(DictPut(room_data, PANGEA_ACTIVITY_ROLE_STATE_EVENT_TYPE,
                             pruned),
                     MEMBERSHIP_SUMMARY_KEY, filtered_summary)

\* Mutant: a payload with a course plan gets a summary as well.
_add_membership_summary_CoursePlan(room_data, membership_summary) ==
    IF /\ PANGEA_ACTIVITY_ROLE_STATE_EVENT_TYPE \notin DOMAIN room_data
       /\ "pangea.course_plan" \notin DOMAIN room_data
    THEN room_data
    ELSE DictPut(room_data, MEMBERSHIP_SUMMARY_KEY,
             [user_id \in (DOMAIN membership_summary)
                              \cap PayloadRoleUsers(room_data)
                 |-> membership_summary[user_id]])

\* _add_membership_summary: room_data after the in-place update.
_add_membership_summary(room_data, membership_summary) ==
    IF PANGEA_ACTIVITY_ROLE_STATE_EVENT_TYPE \notin DOMAIN room_data
    THEN room_data
    ELSE LET activity_roles == room_data[PANGEA_ACTIVITY_ROLE_STATE_EVENT_TYPE]
             user_ids_in_roles ==
                 UNION { RoleUserIds(activity_roles[k].content) :
                           k \in DOMAIN activity_roles }
             filtered_summary ==
                 [user_id \in (DOMAIN membership_summary) \cap user_ids_in_roles
                     |-> membership_summary[user_id]]
         IN  DictPut(room_data, MEMBERSHIP_SUMMARY_KEY, filtered_summary)

\* _get_membership_summary: user id -> membership of the room's current
\* m.room.member state.
\* Mutant: a failed lookup is not noticed and the summary is built anyway.
_get_membership_summary_IgnoresFailure(room_id) ==
    [state_key \in { u \in DOMAIN members[room_id] : members[room_id][u] # "" }
        |-> members[room_id][state_key]]

_get_membership_summary(room_id) ==
    IF room_id \in failing
    THEN EmptyDict
    ELSE [state_key \in { u \in DOMAIN members[room_id] :
                              members[room_id][u] # "" }
             |-> members[room_id][state_key]]

\* ------------------------------------------------------------ RoomPreview

\* The request being rendered by RoomPreview._async_render_GET. pc is "auth"
\* while get_user_by_req is awaited and "done" once respond_with_json has
\* run. token is the access token of the request (None: no Authorization
\* header), rooms_param the comma-separated pieces of the rooms query
\* parameter (<<>>: no such parameter). After the response: the requester
\* (None when authentication failed), whether the rate limiter refused, the
\* parsed room ids, the status code and the JSON body, and the length of the
\* event log at that instant.
IdleRequest ==
    [ pc |-> "idle", token |-> None, rooms_param |-> <<>>,
      requester_id |-> None, limited |-> FALSE, room_ids |-> <<>>,
      status |-> 0, body |-> EmptyDict, at |-> 0 ]

\* ------------------------------------------------------ get_room_preview

\* The local state of one get_room_preview call. pc is the await the call
\* is suspended at: "hit" (membership query of a cached room), "db" (the
\* aggregation query), "mem" (membership query of a fetched room).
\* The fields after ret record what the call did and saw: the number of
\* aggregation queries it issued and the rooms they covered, the length of
\* the event log when the rows were read, the rooms it served from the
\* cache, the entries it stored, the calls it overlapped with, the rooms
\* invalidated while it was in flight, the membership state of each room at
\* the instant of its membership query (seen), and what it
\* found when it started (rooms with no entry, rooms with an entry of age
\* TTL or more and that entry's timestamp); qfailed: db_pool.execute raised.
\* pc is "done" when the call has returned and "raised" when it has ended
\* with an exception.
IdleCall ==
    [ pc |-> "idle", rooms |-> <<>>, i |-> 0, cached_data |-> NoData,
      result |-> EmptyDict, rooms_to_fetch |-> <<>>,
      fetched_room_data |-> EmptyDict, ret |-> EmptyDict,
      nqueries |-> 0, qrooms |-> {}, hits |-> {}, stored |-> EmptyDict,
      qlen |-> 0, overlap |-> {}, inval |-> {}, absent0 |-> {}, expired0 |-> EmptyDict,
      first0 |-> EmptyDict, must_see |-> EmptyDict, refetch |-> {},
      seen |-> EmptyDict, changed0 |-> {}, qfailed |-> FALSE ]

InFlight(c) == c.pc \in {"hit", "db", "mem"}

\* What the membership query of a room meets: whether the lookup succeeds,
\* and the room's membership state at that instant.
Seen(room_id) == [ok |-> room_id \notin failing, members |-> members[room_id]]

\* No call has a result waiting to be taken: the caller takes the result the
\* moment the call returns, before anything else happens.
Taken == \A p \in Procs : calls[p].pc \notin {"done", "raised"}

\* The objects still referred to, from the cache or from a call in flight.
Refs(cache, cs) ==
    { cache[r].data : r \in DOMAIN cache }
    \cup UNION { Range(cs[p].result) \cup ({cs[p].cached_data} \ {NoData}) :
                  p \in Procs }

\* A new dict object: a reference no one holds.
NewRef(cache, cs) ==
    CHOOSE n \in 1..(Cardinality(Refs(cache, cs)) + 1) :
        /\ n \notin Refs(cache, cs)
        /\ \A m \in 1..(n - 1) : m \in Refs(cache, cs)

\* Objects no one refers to any more are gone.
Collect(h, cache, cs) == [o \in Refs(cache, cs) |-> h[o]]

\* fetched_room_data.items(): the rooms being fetched, in insertion order.
RECURSIVE FetchOrder(_)
FetchOrder(rooms_to_fetch) ==
    IF rooms_to_fetch = <<>> THEN <<>>
    ELSE LET init == FetchOrder(SubSeq(rooms_to_fetch, 1, Len(rooms_to_fetch) - 1))
             last == rooms_to_fetch[Len(rooms_to_fetch)]
         IN  IF last \in Range(init) THEN init ELSE Append(init, last)

\* "for room_id in rooms" from index c.i on, up to the next await or the
\* end of the loop. Gives the call and the cache afterwards.
RECURSIVE CheckCache(_, _, _)
CheckCache(c, cache, t) ==
    IF c.i > Len(c.rooms)
    THEN [call |-> c, cache |-> cache]
    ELSE LET room_id == c.rooms[c.i]
             got == _get_cached_room(cache, room_id, t)
         IN  IF got.data # NoData
             THEN [call |-> [c EXCEPT !.pc = "hit", !.cached_data = got.data],
                   cache |-> got.cache]
             ELSE CheckCache([c EXCEPT !.i = c.i + 1,
                                       !.rooms_to_fetch = Append(@, room_id)],
                             got.cache, t)

\* Mutant: the aggregation query covers every requested room, cached or not.
AfterCheckCache_AllRooms(c) ==
    IF c.pc = "hit" THEN c
    ELSE IF c.rooms_to_fetch = <<>> THEN [c EXCEPT !.pc = "return"]
    ELSE [c EXCEPT !.pc = "db", !.i = 1,
                   !.rooms_to_fetch = c.rooms,
                   !.nqueries = c.nqueries + 1,
                   !.qrooms = c.qrooms \cup Range(c.rooms)]

\* After the first loop: return early if all rooms were cached, else issue
\* the aggregation query for rooms_to_fetch.
AfterCheckCache(c) ==
    IF c.pc = "hit" THEN c
    ELSE IF c.rooms_to_fetch = <<>> THEN [c EXCEPT !.pc = "return"]
    ELSE [c EXCEPT !.pc = "db", !.i = 1,
                   !.nqueries = c.nqueries + 1,
                   !.qrooms = c.qrooms \cup Range(c.rooms_to_fetch)]

\* Mutant: the return statement is never reached.
Returned_Never(c, h) == c

\* "return result": the caller gets the dicts as they are at this instant.
Returned(c, h) ==
    IF c.pc = "return"
    THEN [c EXCEPT !.pc = "done", !.cached_data = NoData, !.result = EmptyDict,
                   !.ret = [r \in DOMAIN c.result |-> h[c.result[r]]]]
    ELSE c

\* ---------------------------------------------------------------- history

\* The payload without its membership_summary.
StripSummary(room_data) ==
    [k \in (DOMAIN room_data) \ {MEMBERSHIP_SUMMARY_KEY} |-> room_data[k]]

Restrict(d, S) == [k \in (DOMAIN d) \cap S |-> d[k]]
Without(d, S) == [k \in (DOMAIN d) \ S |-> d[k]]

\* c.first0 is hist.first of the rooms asked for, as far as the call starts
\* within the TTL of the recorded store.
\* hist.first: per room, what the last call that ran alone and aggregated
\* the room returned for it and when it stored it; forgotten when the room
\* is invalidated, when two calls overlap, and when the TTL has passed.
\* hist.delivered: per room, the last tracked state event delivered while
\* no call was in flight, until a call asking for the room starts.
\* hist.refetch: the rooms invalidated while a call in flight had already
\* taken them from the cache, until a call asking for the room starts.
\* hist.rl: the last is_rate_limited call: its user, its time, the user's
\* window before the call, the timestamps of the user's calls admitted
\* before it, and its answer.
\* hist.admitted: per user, the timestamps of all admitted calls.
\* hist.nreq: the number of is_rate_limited calls made.
\* hist.changed: the cached rooms in which the membership of a user named by
\* a role of the cached payload changed, until a call asking for the room
\* starts.
NoCall == [user |-> None, t |-> 0, before |-> <<>>, prior |-> <<>>,
           limited |-> FALSE]
NoHistory ==
    [first |-> EmptyDict, delivered |-> EmptyDict, refetch |-> {},
     rl |-> NoCall, admitted |-> EmptyDict, nreq |-> 0, changed |-> {}]

\* What a starting call takes over from the history.
Started(c, cache, t, others) ==
    [c EXCEPT !.pc = "scan", !.i = 1, !.overlap = others,
              !.absent0 = Range(c.rooms) \ DOMAIN cache,
              !.expired0 =
                  [r \in { x \in Range(c.rooms) \cap DOMAIN cache :
                             t - cache[x].timestamp >= CACHE_TTL_SECONDS }
                      |-> cache[r].timestamp],
              !.first0 =
                  IF others = {}
                  THEN Restrict(hist.first,
                           { r \in Range(c.rooms) \cap DOMAIN hist.first :
                               t - hist.first[r].timestamp < CACHE_TTL_SECONDS })
                  ELSE EmptyDict,
              !.changed0 = hist.changed \cap Range(c.rooms),
              !.must_see = Restrict(hist.delivered, Range(c.rooms)),
              !.refetch = hist.refetch \cap Range(c.rooms)]

HistoryAtStart(c, others) ==
    [hist EXCEPT !.first = IF others = {} THEN @ ELSE EmptyDict,
                 !.delivered = Without(@, Range(c.rooms)),
                 !.changed = @ \ Range(c.rooms),
                 !.refetch = @ \ Range(c.rooms)]

\* What a call leaves in the history when it returns: what it returned for
\* the rooms it aggregated and stored, if it ran alone and the room was not
\* invalidated meanwhile.
HistoryAtReturn(h, c) ==
    IF c.pc = "done" /\ c.overlap = {}
    THEN [h EXCEPT !.first =
            [r \in (DOMAIN @) \cup ((DOMAIN c.stored) \ c.inval) |->
                IF r \in (DOMAIN c.stored) \ c.inval
                THEN [state |-> StripSummary(c.ret[r]),
                      timestamp |-> c.stored[r].timestamp]
                ELSE @[r]]]
    ELSE h

\* A recorded store older than the TTL is of no use to any later call.
HistoryAtTick(h, t) ==
    [h EXCEPT !.first =
        Restrict(@, { r \in DOMAIN @ : t - @[r].timestamp < CACHE_TTL_SECONDS })]

\* ----------------------------------------------------------------- actions

\* The room lists of the requests: none, one room, and two rooms.
RoomLists == {<<>>, <<"!r1">>, <<"!r1", "!r2">>}

DefaultConfig ==
    [ room_preview_state_event_types |-> <<TRACKED_TYPE>>,
      burst_duration_seconds |-> 100, requests_per_burst |-> 2,
      database_engine |-> "psycopg2" ]

Configs ==
    { [DefaultConfig EXCEPT !.room_preview_state_event_types = ts,
                            !.database_engine = eng] :
        ts \in {<<>>, <<TRACKED_TYPE>>}, eng \in {"sqlite3", "psycopg2"} }

Init ==
    /\ now = 0
    /\ config \in Configs
    /\ events = <<>>
    /\ undelivered = {}
    /\ room_cache = EmptyDict
    /\ heap = EmptyDict
    /\ calls = [p \in Procs |-> IdleCall]
    /\ request_log = EmptyDict
    /\ members = [r \in Rooms |-> EmptyDict]
    /\ failing = {}
    /\ http = IdleRequest
    /\ hist = NoHistory

\* Mutant: only the room list is looked at.
EarlyReturn_RoomsOnly(rooms, cfg) == rooms = <<>>

\* "if not rooms or not config.room_preview_state_event_types: return {}".
EarlyReturn(rooms, cfg) ==
    rooms = <<>> \/ cfg.room_preview_state_event_types = <<>>

\* get_room_preview(rooms) from its call to its first await.
GetRoomPreview(p, rooms) ==
    /\ Taken
    /\ calls[p].pc = "idle"
    /\ IF EarlyReturn(rooms, config)
       THEN /\ calls' = [calls EXCEPT ![p] =
                            [IdleCall EXCEPT !.pc = "done", !.rooms = rooms]]
            /\ UNCHANGED <<room_cache, heap, hist>>
       ELSE LET others == { q \in Procs \ {p} : InFlight(calls[q]) }
                c0 == Started([IdleCall EXCEPT !.rooms = rooms],
                              room_cache, now, others)
                swept == _cleanup_expired_cache(room_cache, now)
                r == CheckCache(c0, swept, now)
                c1 == AfterCheckCache(r.call)
                cs == [q \in Procs |->
                         IF q = p THEN c1
                         ELSE IF q \in others
                              THEN [calls[q] EXCEPT !.overlap = @ \cup {p}]
                              ELSE calls[q]]
            IN  /\ calls' = cs
                /\ room_cache' = r.cache
                /\ heap' = Collect(heap, r.cache, cs)
                /\ hist' = HistoryAtStart(c0, others)
    /\ UNCHANGED <<now, config, http, members, failing, events, undelivered, request_log>>

\* The membership query of a cached room returns: the summary is added to
\* the cached dict itself, and the loop over rooms goes on.
HitReturn(p) ==
    /\ Taken
    /\ calls[p].pc = "hit"
    /\ LET c == calls[p]
           room_id == c.rooms[c.i]
           membership_summary == _get_membership_summary(room_id)
           h1 == [heap EXCEPT ![c.cached_data] =
                     _add_membership_summary(@, membership_summary)]
           c1 == [c EXCEPT !.pc = "scan", !.i = c.i + 1,
                           !.result = DictPut(@, room_id, c.cached_data),
                           !.cached_data = NoData,
                           !.hits = @ \cup {room_id},
                           !.seen = DictPut(@, room_id, Seen(room_id))]
           r == CheckCache(c1, room_cache, now)
           c2 == Returned(AfterCheckCache(r.call), h1)
           cs == [calls EXCEPT ![p] = c2]
       IN  /\ calls' = cs
           /\ room_cache' = r.cache
           /\ heap' = Collect(h1, r.cache, cs)
           /\ hist' = HistoryAtReturn(hist, c2)
    /\ UNCHANGED <<now, config, http, members, failing, events, undelivered, request_log>>

\* db_pool.execute returns the rows: they are folded into fetched_room_data
\* and the second loop reaches its first membership query.
DbReturn(p) ==
    /\ Taken
    /\ calls[p].pc = "db"
    /\ \E rows \in ExecuteQuery(config.database_engine, events,
                                calls[p].rooms_to_fetch,
                                config.room_preview_state_event_types) :
          calls' = [calls EXCEPT ![p] =
                      [@ EXCEPT !.pc = "mem", !.i = 1, !.qlen = Len(events),
                                !.fetched_room_data =
                                    FoldRows(calls[p].rooms_to_fetch, rows)]]
    /\ UNCHANGED <<now, config, http, members, failing, events, undelivered, room_cache, heap,
                   request_log, hist>>

\* Mutant: the failure of the query is swallowed and the call goes on as if
\* the query had returned no rows.
Raise_EmptyRows(c) ==
    [c EXCEPT !.pc = "mem", !.i = 1, !.qfailed = TRUE,
              !.fetched_room_data = FoldRows(c.rooms_to_fetch, <<>>)]

\* An exception of "await db_pool.execute" is not caught in get_room_preview:
\* the call ends there, the caller gets the exception and no result.
Raise(c) ==
    [c EXCEPT !.pc = "raised", !.qfailed = TRUE, !.cached_data = NoData,
              !.result = EmptyDict, !.ret = EmptyDict]

\* db_pool.execute raises.
DbFail(p) ==
    /\ Taken
    /\ calls[p].pc = "db"
    /\ LET cs == [calls EXCEPT ![p] = Raise(@)]
       IN  /\ calls' = cs
           /\ heap' = Collect(heap, room_cache, cs)
    /\ UNCHANGED <<now, config, http, members, failing, events, undelivered,
                   room_cache, request_log, hist>>

\* The membership query of a fetched room returns: the summary is added,
\* the room is cached and put into the result.
MemReturn(p) ==
    /\ Taken
    /\ calls[p].pc = "mem"
    /\ LET c == calls[p]
           order == FetchOrder(c.rooms_to_fetch)
           room_id == order[c.i]
           membership_summary == _get_membership_summary(room_id)
           room_data == _add_membership_summary(c.fetched_room_data[room_id],
                                                membership_summary)
           ref == NewRef(room_cache, calls)
           h1 == DictPut(heap, ref, room_data)
           cache1 == _cache_room_data(room_cache, room_id, ref, now)
           c1 == [c EXCEPT !.i = c.i + 1,
                           !.seen = DictPut(@, room_id, Seen(room_id)),
                           !.result = DictPut(@, room_id, ref),
                           !.stored = DictPut(@, room_id,
                               [data |-> room_data, timestamp |-> now]),
                           !.pc = IF c.i + 1 > Len(order) THEN "return" ELSE "mem"]
           c2 == Returned(c1, h1)
           cs == [calls EXCEPT ![p] = c2]
       IN  /\ calls' = cs
           /\ room_cache' = cache1
           /\ heap' = Collect(h1, cache1, cs)
           /\ hist' = HistoryAtReturn(hist, c2)
    /\ UNCHANGED <<now, config, http, members, failing, events, undelivered, request_log>>

\* The caller takes the result the moment the call returns; the slot is
\* free for the next call.
Ack(p) ==
    /\ calls[p].pc \in {"done", "raised"}
    /\ calls' = [calls EXCEPT ![p] = IdleCall]
    /\ UNCHANGED <<now, config, http, members, failing, events, undelivered, room_cache, heap,
                   request_log, hist>>

\* Mutant: the callback does not look at whether the event is a state event.
_on_new_event_AnyEvent(cache, event, cfg) ==
    IF event.type \notin Range(cfg.room_preview_state_event_types) THEN cache
    ELSE invalidate_room_cache(cache, event.room_id)

\* _on_new_event: the cache after the callback.
_on_new_event(cache, event, cfg) ==
    IF ~event.is_state THEN cache
    ELSE IF event.type \notin Range(cfg.room_preview_state_event_types) THEN cache
    ELSE invalidate_room_cache(cache, event.room_id)

\* Whether the callback reaches invalidate_room_cache.
Invalidates(event, cfg) ==
    event.is_state /\ event.type \in Range(cfg.room_preview_state_event_types)

\* The host persists a new event; its on_new_event callback runs later.
PersistEvent(r, t, k, isState) ==
    /\ Taken
    /\ Len(events) < MaxEvents
    /\ Cardinality(undelivered) < MaxUndelivered
    /\ events' = Append(events,
                        NewEventRecord(Len(events) + 1, r, t, k, isState, now))
    /\ undelivered' = undelivered \cup {Len(events) + 1}
    /\ UNCHANGED <<now, config, http, members, failing, room_cache, heap, calls, request_log, hist>>

\* The host calls on_new_event for a persisted event.
OnNewEvent(id) ==
    /\ Taken
    /\ id \in undelivered
    /\ LET event == events[id]
           cache1 == _on_new_event(room_cache, event, config)
           serving == { p \in Procs :
                          /\ InFlight(calls[p])
                          /\ \/ event.room_id \in calls[p].hits
                             \/ /\ calls[p].pc = "hit"
                                /\ calls[p].rooms[calls[p].i] = event.room_id }
           quiet == \A p \in Procs : ~InFlight(calls[p])
       IN  /\ room_cache' = cache1
           /\ heap' = Collect(heap, cache1, calls)
           /\ calls' = [p \in Procs |->
                          IF InFlight(calls[p]) /\ Invalidates(event, config)
                          THEN [calls[p] EXCEPT !.inval = @ \cup {event.room_id}]
                          ELSE calls[p]]
           /\ hist' = IF Invalidates(event, config)
                      THEN [hist EXCEPT
                              !.first = DictPop(@, event.room_id),
                              !.delivered =
                                  IF quiet THEN DictPut(@, event.room_id, id) ELSE @,
                              !.refetch =
                                  IF serving # {} THEN @ \cup {event.room_id} ELSE @]
                      ELSE hist
    /\ undelivered' = undelivered \ {id}
    /\ UNCHANGED <<now, config, http, members, failing, events, request_log>>

\* Time passes.
Tick ==
    /\ Taken
    /\ now + TimeStep <= MaxTime
    /\ now' = now + TimeStep
    /\ hist' = HistoryAtTick(hist, now + TimeStep)
    /\ UNCHANGED <<config, http, members, failing, events, undelivered, room_cache, heap, calls,
                   request_log>>

\* The host's own steps: it persists events of any kind in room !r1 and
\* delivers them to on_new_event, and time passes. Room !r2 has no events
\* here (SpecFrame has events in both rooms).
Host ==
    \/ \E k \in StateKeys : PersistEvent("!r1", TRACKED_TYPE, k, TRUE)
    \/ \E k \in StateKeys : PersistEvent("!r1", UNTRACKED_TYPE, k, TRUE)
    \/ PersistEvent("!r1", TRACKED_TYPE, None, FALSE)
    \/ \E id \in 1..MaxEvents : OnNewEvent(id)
    \/ Tick

\* One request at a time: the next get_room_preview call starts after the
\* previous one has returned.
Next ==
    \/ \E rooms \in RoomLists : GetRoomPreview(1, rooms)
    \/ HitReturn(1)
    \/ DbReturn(1)
    \/ MemReturn(1)
    \/ Ack(1)
    \/ Host

Spec == Init /\ [][Next]_vars

\* Requests in flight at once: calls for the same room overlap at their
\* awaits while tracked state events of that room arrive.
NextConc ==
    \/ \E p \in Procs : GetRoomPreview(p, <<"!r1">>)
    \/ \E p \in Procs : HitReturn(p)
    \/ \E p \in Procs : DbReturn(p)
    \/ \E p \in Procs : MemReturn(p)
    \/ \E p \in Procs : Ack(p)
    \/ PersistEvent("!r1", TRACKED_TYPE, "", TRUE)
    \/ \E id \in 1..MaxEvents : OnNewEvent(id)

InitConc ==
    /\ Init
    /\ config.room_preview_state_event_types # <<>>

SpecConc == InitConc /\ [][NextConc]_vars

\* One request at a time against an event log whose aggregation query may
\* fail; entries expire and are invalidated in between.
InitDbFail ==
    /\ Init
    /\ config = DefaultConfig

NextDbFail ==
    \/ \E rooms \in {<<"!r1">>, <<"!r1", "!r2">>} : GetRoomPreview(1, rooms)
    \/ HitReturn(1)
    \/ DbReturn(1)
    \/ DbFail(1)
    \/ MemReturn(1)
    \/ Ack(1)
    \/ PersistEvent("!r1", TRACKED_TYPE, "", TRUE)
    \/ \E id \in 1..MaxEvents : OnNewEvent(id)
    \/ Tick

SpecDbFail == InitDbFail /\ [][NextDbFail]_vars

\* ------------------------------------------------------------- enrichment

COURSE_PLAN_TYPE == "pangea.course_plan"
RoomUsers == {"@a", "@b"}
Memberships == {"join", "leave"}

\* Contents of activity-roles events: roles keyed by role id, each naming a user.
RolesContents ==
    { [roles |-> [role1 |-> [user_id |-> "@a", role |-> "speaker"]]],
      [roles |-> [role1 |-> [user_id |-> "@a", role |-> "speaker"],
                  role2 |-> [user_id |-> "@b", role |-> "listener"]]] }

\* Contents of m.room.join_rules events, with and without an allow-list.
JoinRulesContents ==
    { [join_rule |-> "public"],
      [join_rule |-> "restricted", allow |-> "!r2"] }

\* The host persists a state event with the given content.
PersistContent(r, t, k, content) ==
    /\ Taken
    /\ Len(events) < MaxEvents
    /\ Cardinality(undelivered) < MaxUndelivered
    /\ events' = Append(events,
                        [NewEventRecord(Len(events) + 1, r, t, k, TRUE, now)
                            EXCEPT !.content = content])
    /\ undelivered' = undelivered \cup {Len(events) + 1}
    /\ UNCHANGED <<now, config, http, members, failing, room_cache, heap, calls,
                   request_log, hist>>

\* The membership of user u in room r, or "" when u has no membership event.
WindowOfMember(r, u) == IF u \in DOMAIN members[r] THEN members[r][u] ELSE ""

\* The membership of user u of room r changes (an m.room.member event, which
\* is not a tracked type: no invalidation follows).
SetMembership(r, u, m) ==
    /\ Taken
    /\ WindowOfMember(r, u) # m
    /\ members' = [members EXCEPT ![r] = DictPut(@, u, m)]
    /\ hist' = IF /\ r \in DOMAIN room_cache
                  /\ u \in PayloadRoleUsers(heap[room_cache[r].data])
               THEN [hist EXCEPT !.changed = @ \cup {r}]
               ELSE hist
    /\ UNCHANGED <<now, config, http, failing, events, undelivered, room_cache, heap,
                   calls, request_log>>

\* api.get_room_state starts, or stops, raising for room r.
SetFailing(r, down) ==
    /\ Taken
    /\ (r \in failing) # down
    /\ failing' = IF down THEN failing \cup {r} ELSE failing \ {r}
    /\ UNCHANGED <<now, config, http, members, events, undelivered, room_cache, heap,
                   calls, request_log, hist>>

EnrichTypes == <<PANGEA_ACTIVITY_ROLE_STATE_EVENT_TYPE, COURSE_PLAN_TYPE>>

\* Both rooms have a joined member from the start: @a in room !r2, and @b,
\* whose membership never changes, in room !r1. Enrichment works on the
\* folded rows, whichever engine produced them: the default engine is used.
InitEnrich ==
    /\ now = 0
    /\ config = [DefaultConfig EXCEPT
                    !.room_preview_state_event_types = EnrichTypes]
    /\ events = <<>>
    /\ undelivered = {}
    /\ room_cache = EmptyDict
    /\ heap = EmptyDict
    /\ calls = [p \in Procs |-> IdleCall]
    /\ request_log = EmptyDict
    /\ members = [r \in Rooms |->
                    IF r = "!r2" THEN DictPut(EmptyDict, "@a", "join")
                    ELSE DictPut(EmptyDict, "@b", "join")]
    /\ failing = {}
    /\ http = IdleRequest
    /\ hist = NoHistory

\* Room !r1 with roles, with a course plan only, and with nothing; membership
\* changes of @a and failing membership lookups in room !r1.
NextEnrich ==
    \/ \E content \in RolesContents :
          PersistContent("!r1", PANGEA_ACTIVITY_ROLE_STATE_EVENT_TYPE, "", content)
    \/ PersistEvent("!r1", COURSE_PLAN_TYPE, "", TRUE)
    \/ \E id \in 1..MaxEvents : OnNewEvent(id)
    \/ \E m \in Memberships : SetMembership("!r1", "@a", m)
    \/ \E down \in BOOLEAN : SetFailing("!r1", down)
    \/ GetRoomPreview(1, <<"!r1">>)
    \/ HitReturn(1)
    \/ DbReturn(1)
    \/ MemReturn(1)
    \/ Ack(1)

SpecEnrich == InitEnrich /\ [][NextEnrich]_vars

\* Room !r1 with roles is read from the cache again and again while the
\* membership of @a changes and time passes.
NextHit ==
    \/ PersistContent("!r1", PANGEA_ACTIVITY_ROLE_STATE_EVENT_TYPE, "",
                      [roles |-> [role1 |-> [user_id |-> "@a", role |-> "speaker"]]])
    \/ \E id \in 1..MaxEvents : OnNewEvent(id)
    \/ \E m \in Memberships : SetMembership("!r1", "@a", m)
    \/ Tick
    \/ GetRoomPreview(1, <<"!r1">>)
    \/ HitReturn(1)
    \/ DbReturn(1)
    \/ MemReturn(1)
    \/ Ack(1)

SpecHit == InitEnrich /\ [][NextHit]_vars

\* Rooms whose log holds activity roles, state of an untracked type and
\* messages, and no course plan although that type is tracked: the shape of
\* the payloads that are returned and cached.
NextShape ==
    \/ PersistContent("!r1", PANGEA_ACTIVITY_ROLE_STATE_EVENT_TYPE, "",
                      [roles |-> [role1 |-> [user_id |-> "@b", role |-> "speaker"]]])
    \/ \E r \in Rooms : PersistEvent(r, UNTRACKED_TYPE, "", TRUE)
    \/ PersistEvent("!r1", COURSE_PLAN_TYPE, None, FALSE)
    \/ \E id \in 1..MaxEvents : OnNewEvent(id)
    \/ \E rooms \in {<<"!r1">>, <<"!r1", "!r2">>} : GetRoomPreview(1, rooms)
    \/ HitReturn(1)
    \/ DbReturn(1)
    \/ MemReturn(1)
    \/ Ack(1)

SpecShape == InitEnrich /\ [][NextShape]_vars

\* Batches of two rooms with roles while the membership lookup of either
\* room fails and recovers.
NextFail ==
    \/ PersistContent("!r1", PANGEA_ACTIVITY_ROLE_STATE_EVENT_TYPE, "",
                      [roles |-> [role1 |-> [user_id |-> "@a", role |-> "speaker"],
                                  role2 |-> [user_id |-> "@b", role |-> "listener"]]])
    \/ PersistContent("!r2", PANGEA_ACTIVITY_ROLE_STATE_EVENT_TYPE, "",
                      [roles |-> [role1 |-> [user_id |-> "@a", role |-> "speaker"]]])
    \/ \E id \in 1..MaxEvents : OnNewEvent(id)
    \/ \E r \in Rooms, down \in BOOLEAN : SetFailing(r, down)
    \/ \E rooms \in {<<"!r1">>, <<"!r1", "!r2">>} : GetRoomPreview(1, rooms)
    \/ HitReturn(1)
    \/ DbReturn(1)
    \/ MemReturn(1)
    \/ Ack(1)

SpecFail == InitEnrich /\ [][NextFail]_vars

\* Invalidation and the shape of the result: two rooms, tracked events and
\* join rules, requests that mix cached and uncached rooms. Invalidation and
\* the keys of the result do not depend on the engine: the default is used.
FrameTypes == <<TRACKED_TYPE, EVENT_TYPE_M_ROOM_JOIN_RULES>>

InitFrame ==
    /\ now = 0
    /\ config = [DefaultConfig EXCEPT
                    !.room_preview_state_event_types = FrameTypes]
    /\ events = <<>>
    /\ undelivered = {}
    /\ room_cache = EmptyDict
    /\ heap = EmptyDict
    /\ calls = [p \in Procs |-> IdleCall]
    /\ request_log = EmptyDict
    /\ members = [r \in Rooms |-> EmptyDict]
    /\ failing = {}
    /\ http = IdleRequest
    /\ hist = NoHistory

NextFrame ==
    \/ \E r \in Rooms : PersistEvent(r, TRACKED_TYPE, "", TRUE)
    \/ \E content \in JoinRulesContents :
          PersistContent("!r1", EVENT_TYPE_M_ROOM_JOIN_RULES, "", content)
    \/ \E id \in 1..MaxEvents : OnNewEvent(id)
    \/ \E rooms \in {<<"!r1">>, <<"!r2">>, <<"!r1", "!r2">>} :
          GetRoomPreview(1, rooms)
    \/ HitReturn(1)
    \/ DbReturn(1)
    \/ MemReturn(1)
    \/ Ack(1)

SpecFrame == InitFrame /\ [][NextFrame]_vars

\* ------------------------------------------------------------ rate limiter

Users == {"@a", "@b"}

RateConfigs ==
    { [DefaultConfig EXCEPT !.burst_duration_seconds = w,
                            !.requests_per_burst = n] :
        w \in -1..MaxBurst, n \in -1..MaxBurst }

\* request_log[user_id], or the empty list of a new user.
WindowOf(log, user_id) == IF user_id \in DOMAIN log THEN log[user_id] ELSE <<>>

\* Mutant: once one timestamp has aged out the whole window is cleared.
PruneWindow_Reset(window, current_time, cfg) ==
    IF \E i \in 1..Len(window) :
          current_time - window[i] > cfg.burst_duration_seconds
    THEN <<>>
    ELSE window

\* Mutant: a timestamp is kept one second longer than the time window.
PruneWindow_Wider(window, current_time, cfg) ==
    LET InWindow(timestamp) ==
            current_time - timestamp <= cfg.burst_duration_seconds + 1
    IN  SelectSeq(window, InWindow)

\* Mutant: a timestamp exactly burst_duration_seconds old is dropped.
PruneWindow_Exclusive(window, current_time, cfg) ==
    LET InWindow(timestamp) ==
            current_time - timestamp < cfg.burst_duration_seconds
    IN  SelectSeq(window, InWindow)

\* The timestamps that are not older than the time window.
PruneWindow(window, current_time, cfg) ==
    LET InWindow(timestamp) ==
            current_time - timestamp <= cfg.burst_duration_seconds
    IN  SelectSeq(window, InWindow)

\* Mutant: the limit is reached only when it is exceeded.
OverLimit_Exceeds(window, cfg) == Len(window) > cfg.requests_per_burst

\* The number of requests in the time window reaches the limit.
OverLimit(window, cfg) == Len(window) >= cfg.requests_per_burst

\* Mutant: the pruned list is used for the check only; the stored list keeps
\* its old timestamps.
is_rate_limited_KeepsOld(log, user_id, cfg, current_time) ==
    LET window == WindowOf(log, user_id)
        pruned == PruneWindow(window, current_time, cfg)
    IN  IF OverLimit(pruned, cfg)
        THEN [limited |-> TRUE, log |-> DictPut(log, user_id, window)]
        ELSE [limited |-> FALSE,
              log |-> DictPut(log, user_id, Append(window, current_time))]

\* Mutant: one list of timestamps, that of @a, serves every user.
is_rate_limited_SharedWindow(log, user_id, cfg, current_time) ==
    LET pruned == PruneWindow(WindowOf(log, "@a"), current_time, cfg)
    IN  IF OverLimit(pruned, cfg)
        THEN [limited |-> TRUE, log |-> DictPut(log, "@a", pruned)]
        ELSE [limited |-> FALSE,
              log |-> DictPut(log, "@a", Append(pruned, current_time))]

\* Mutant: a refused request is recorded as well.
is_rate_limited_RecordsRefused(log, user_id, cfg, current_time) ==
    LET pruned == PruneWindow(WindowOf(log, user_id), current_time, cfg)
    IN  [limited |-> OverLimit(pruned, cfg),
         log |-> DictPut(log, user_id, Append(pruned, current_time))]

\* is_rate_limited(user_id, config): the answer and the request log it leaves.
is_rate_limited(log, user_id, cfg, current_time) ==
    LET pruned == PruneWindow(WindowOf(log, user_id), current_time, cfg)
    IN  IF OverLimit(pruned, cfg)
        THEN [limited |-> TRUE, log |-> DictPut(log, user_id, pruned)]
        ELSE [limited |-> FALSE,
              log |-> DictPut(log, user_id, Append(pruned, current_time))]

\* One call of is_rate_limited; it has no await, so it runs as one step.
IsRateLimited(u) ==
    LET r == is_rate_limited(request_log, u, config, now)
    IN  /\ hist.nreq < MaxRequests
        /\ request_log' = r.log
        /\ hist' = [hist EXCEPT
                       !.nreq = @ + 1,
                       !.rl = [user |-> u, t |-> now,
                               before |-> WindowOf(request_log, u),
                               prior |-> WindowOf(hist.admitted, u),
                               limited |-> r.limited],
                       !.admitted =
                           IF r.limited THEN @
                           ELSE DictPut(@, u, Append(WindowOf(@, u), now))]
        /\ UNCHANGED <<now, config, http, members, failing, events, undelivered, room_cache, heap, calls>>

\* time.time() advances by one second.
RateTick ==
    /\ now < MaxRateTime
    /\ now' = now + 1
    /\ UNCHANGED <<config, http, members, failing, events, undelivered, room_cache, heap, calls,
                   request_log, hist>>

InitRate ==
    /\ now = 0
    /\ config \in RateConfigs
    /\ events = <<>>
    /\ undelivered = {}
    /\ room_cache = EmptyDict
    /\ heap = EmptyDict
    /\ calls = [p \in Procs |-> IdleCall]
    /\ request_log = EmptyDict
    /\ members = [r \in Rooms |-> EmptyDict]
    /\ failing = {}
    /\ http = IdleRequest
    /\ hist = NoHistory

NextRate ==
    \/ \E u \in Users : IsRateLimited(u)
    \/ RateTick

SpecRate == InitRate /\ [][NextRate]_vars

\* The rate limiter of two users next to get_room_preview calls on !r1: the
\* two dictionaries, request_log and _room_cache, side by side.
InitRateCache ==
    /\ InitRate
    /\ config.burst_duration_seconds = 1
    /\ config.requests_per_burst \in 1..2

NextRateCache ==
    \/ \E u \in Users : IsRateLimited(u)
    \/ RateTick
    \/ GetRoomPreview(1, <<"!r1">>)
    \/ HitReturn(1)
    \/ DbReturn(1)
    \/ MemReturn(1)
    \/ Ack(1)

SpecRateCache == InitRateCache /\ [][NextRateCache]_vars

\* Every operation of the module running side by side: two callers of
\* get_room_preview on !r1 whose queries return or fail, the host announcing
\* an event it has persisted, and is_rate_limited calls of @a.
InitLive ==
    /\ now = 0
    /\ config = DefaultConfig
    /\ events = <<NewEventRecord(1, "!r1", TRACKED_TYPE, "", TRUE, 0)>>
    /\ undelivered = {1}
    /\ room_cache = EmptyDict
    /\ heap = EmptyDict
    /\ calls = [p \in Procs |-> IdleCall]
    /\ request_log = EmptyDict
    /\ members = [r \in Rooms |-> EmptyDict]
    /\ failing = {}
    /\ http = IdleRequest
    /\ hist = NoHistory

NextLive ==
    \/ \E p \in Procs : GetRoomPreview(p, <<"!r1">>)
    \/ \E p \in Procs : HitReturn(p)
    \/ \E p \in Procs : DbReturn(p)
    \/ \E p \in Procs : DbFail(p)
    \/ \E p \in Procs : MemReturn(p)
    \/ \E p \in Procs : Ack(p)
    \/ \E id \in 1..MaxEvents : OnNewEvent(id)
    \/ (hist.nreq < MaxLiveRequests /\ IsRateLimited("@a"))

\* Each awaited query comes back, with rows or an exception for
\* db_pool.execute and with a summary for the membership query (possibly the
\* empty one of a failed lookup), however often other calls come and go in
\* between; a caller takes the result it is handed.
Fairness ==
    \A p \in Procs :
        /\ SF_vars(HitReturn(p))
        /\ SF_vars(DbReturn(p) \/ DbFail(p))
        /\ SF_vars(MemReturn(p))
        /\ WF_vars(Ack(p))

SpecLive == InitLive /\ [][NextLive]_vars /\ Fairness

\* ----------------------------------------------- RoomPreview (HTTP resource)

\* The access tokens of requests: none, one no user owns, and the token of
\* user @a (written as the user it belongs to).
Tokens == {None, "invalid", "@a"}

\* The rooms query parameter split at its commas: absent (no piece at all),
\* empty, one room id, and room ids with blanks around them and an empty
\* piece between.
RoomsParams == {<<>>, <<"">>, <<"!r1">>, <<" !r2 ", "", "!r1">>}

\* str.strip() on the pieces that occur.
Strip(piece) ==
    CASE piece = " " -> ""
      [] piece = " !r1 " -> "!r1"
      [] piece = " !r2 " -> "!r2"
      [] OTHER -> piece

\* [room_id.strip() for room_id in rooms_str.split(",") if room_id.strip()]
ParseRooms(pieces) ==
    LET stripped == [i \in 1..Len(pieces) |-> Strip(pieces[i])]
        NonEmpty(room_id) == room_id # ""
    IN  SelectSeq(stripped, NonEmpty)

\* auth.get_user_by_req: the requester of a valid token; None stands for the
\* exception it raises when the token is missing or invalid.
get_user_by_req(token) == IF token \in Users THEN token ELSE None

\* The "except Exception" clause of _async_render_GET.
RespondError(req) ==
    [req EXCEPT !.pc = "done", !.status = 500,
                !.body = [error |-> "Internal server error"]]

\* The response to a request the rate limiter admitted.
RespondAdmitted(req) ==
    IF req.rooms_param = <<>>
    THEN [req EXCEPT !.pc = "done", !.status = 200,
                     !.body = [rooms |-> EmptyDict]]
    ELSE LET room_ids == ParseRooms(req.rooms_param)
         IN  IF room_ids = <<>>
             THEN [req EXCEPT !.pc = "done", !.status = 200,
                              !.body = [rooms |-> EmptyDict]]
             ELSE LET rooms_data == [room_id \in Range(room_ids) |-> EmptyDict]
                  IN  [req EXCEPT !.pc = "done", !.status = 200,
                                  !.room_ids = room_ids,
                                  !.body = [rooms |-> rooms_data]]

\* Mutant: a refused request is served like an admitted one.
RespondLimited_Serves(req) == RespondAdmitted(req)

\* The response to a request the rate limiter refused.
RespondLimited(req) ==
    [req EXCEPT !.pc = "done", !.status = 429,
                !.body = [error |-> "Rate limited"]]

\* _async_render_GET after get_user_by_req: the response and the request
\* log is_rate_limited leaves.
_async_render_GET(req, log, cfg, t) ==
    LET requester_id == get_user_by_req(req.token)
    IN  IF requester_id = None
        THEN [request |-> RespondError(req), log |-> log]
        ELSE LET r == is_rate_limited(log, requester_id, cfg, t)
                 req1 == [req EXCEPT !.requester_id = requester_id,
                                     !.limited = r.limited]
             IN  [request |-> IF r.limited THEN RespondLimited(req1)
                              ELSE RespondAdmitted(req1),
                  log |-> r.log]

\* render_GET: a request arrives and get_user_by_req is awaited.
RenderGet(token, rooms_param) ==
    /\ http.pc = "idle"
    /\ http' = [IdleRequest EXCEPT !.pc = "auth", !.token = token,
                                   !.rooms_param = rooms_param]
    /\ UNCHANGED <<now, config, members, failing, events, undelivered,
                   room_cache, heap, calls, request_log, hist>>

\* get_user_by_req returns or raises, and the rest of _async_render_GET,
\* which has no other await, runs to its response.
AuthReturn ==
    /\ http.pc = "auth"
    /\ LET r == _async_render_GET(http, request_log, config, now)
       IN  /\ http' = [r.request EXCEPT !.at = Len(events)]
           /\ request_log' = r.log
    /\ UNCHANGED <<now, config, members, failing, events, undelivered,
                   room_cache, heap, calls, hist>>

\* The client has the response; the next request may arrive.
HttpAck ==
    /\ http.pc = "done"
    /\ http' = IdleRequest
    /\ UNCHANGED <<now, config, members, failing, events, undelivered,
                   room_cache, heap, calls, request_log, hist>>

InitHttp ==
    /\ Init
    /\ config = DefaultConfig

\* Requests to the HTTP resource while tracked state events arrive.
NextHttp ==
    \/ \E token \in Tokens, rooms_param \in RoomsParams :
          RenderGet(token, rooms_param)
    \/ AuthReturn
    \/ HttpAck
    \/ \E r \in Rooms : PersistEvent(r, TRACKED_TYPE, "", TRUE)
    \/ \E id \in 1..MaxEvents : OnNewEvent(id)

SpecHttp == InitHttp /\ [][NextHttp]_vars

\* Requests to the HTTP resource while entries are cached by
\* get_room_preview calls and outlive the TTL.
NextHttpRate ==
    \/ \E token \in Tokens, rooms_param \in RoomsParams :
          RenderGet(token, rooms_param)
    \/ AuthReturn
    \/ HttpAck
    \/ Tick
    \/ GetRoomPreview(1, <<"!r1">>)
    \/ HitReturn(1)
    \/ DbReturn(1)
    \/ MemReturn(1)
    \/ Ack(1)

SpecHttpRate == InitHttp /\ [][NextHttpRate]_vars

\* The aggregation of one room whose tracked state events have an empty, a
\* missing (NULL) and a non-empty state key.
KeyStateKeys == {"", None, "@a"}

NextKeys ==
    \/ \E k \in KeyStateKeys : PersistEvent("!r1", TRACKED_TYPE, k, TRUE)
    \/ \E id \in 1..MaxEvents : OnNewEvent(id)
    \/ GetRoomPreview(1, <<"!r1">>)
    \/ HitReturn(1)
    \/ DbReturn(1)
    \/ MemReturn(1)
    \/ Ack(1)

SpecKeys == InitConc /\ [][NextKeys]_vars

\* The aggregation of one room whose tracked state events carry the empty
\* state key, the state key "default" and a user id.
DefaultStateKeys == {"", "default", "@a"}

NextDefault ==
    \/ \E k \in DefaultStateKeys : PersistEvent("!r1", TRACKED_TYPE, k, TRUE)
    \/ \E id \in 1..MaxEvents : OnNewEvent(id)
    \/ GetRoomPreview(1, <<"!r1">>)
    \/ HitReturn(1)
    \/ DbReturn(1)
    \/ MemReturn(1)
    \/ Ack(1)

SpecDefault == InitConc /\ [][NextDefault]_vars

\* The aggregation of one room whose tracked state events carry several
\* state keys and several versions per key.
AggStateKeys == {"", "@a"}

NextAgg ==
    \/ \E k \in AggStateKeys : PersistEvent("!r1", TRACKED_TYPE, k, TRUE)
    \/ \E id \in 1..MaxEvents : OnNewEvent(id)
    \/ Tick
    \/ GetRoomPreview(1, <<"!r1">>)
    \/ HitReturn(1)
    \/ DbReturn(1)
    \/ MemReturn(1)
    \/ Ack(1)

SpecAgg == InitConc /\ [][NextAgg]_vars

\* ------------------------------------------------------------ properties

TypesConfigured == config.room_preview_state_event_types # <<>>

\* C1: a call that runs alone and asks for one room R that has no cache
\* entry issues exactly one aggregation query, which covers R, and leaves
\* its result in the cache with the time of the store; a later call that
\* runs alone and asks for R within the TTL of that store, with no
\* invalidation of R in between, issues no query and returns the same
\* payload (membership_summary aside).
C1_FetchOnceThenServeFromCache ==
    \A p \in Procs :
        LET c == calls[p] IN
        (c.pc = "done" /\ c.overlap = {} /\ Len(c.rooms) = 1 /\ TypesConfigured) =>
            LET R == c.rooms[1] IN
            /\ R \in c.absent0 =>
                  /\ c.nqueries = 1
                  /\ R \in c.qrooms
                  /\ R \in DOMAIN room_cache
                  /\ heap[room_cache[R].data] = c.ret[R]
                  /\ room_cache[R].timestamp = now
            /\ R \in DOMAIN c.first0 =>
                  /\ c.nqueries = 0
                  /\ StripSummary(c.ret[R]) = c.first0[R].state

\* C1 witness: a second call served a non-empty payload from the cache.
C1_Witness ==
    \E p \in Procs :
        /\ calls[p].pc = "done"
        /\ Len(calls[p].rooms) = 1
        /\ calls[p].rooms[1] \in DOMAIN calls[p].first0
        /\ calls[p].nqueries = 0
        /\ calls[p].ret[calls[p].rooms[1]] # EmptyDict

\* The payload shows, under the event's type and state key, an event that is
\* at least as recent as the given one.
Reflects(room_data, e) ==
    /\ e.type \in DOMAIN room_data
    /\ NormalizeKey(e.state_key) \in DOMAIN room_data[e.type]
    /\ room_data[e.type][NormalizeKey(e.state_key)].origin_server_ts
           >= e.origin_server_ts

\* C2: after a tracked state event of room R was delivered while no call
\* was in flight, the next call asking for R issues an aggregation query
\* covering R and returns a payload that shows that event (or one at least
\* as recent).
C2_NextCallSeesDeliveredEvent ==
    \A p \in Procs :
        LET c == calls[p] IN
        c.pc = "done" =>
            \A R \in DOMAIN c.must_see :
                /\ R \in c.qrooms
                /\ Reflects(c.ret[R], events[c.must_see[R]])

\* C3: on_new_event removes the entry of the event's room when the event
\* is a state event of a tracked type, and otherwise leaves the whole
\* cache (keys, payloads, timestamps) as it was.
C3_OnNewEventInvalidatesIffTrackedState ==
    [][ \A id \in 1..MaxEvents :
          OnNewEvent(id) =>
            IF events[id].is_state
               /\ events[id].type \in Range(config.room_preview_state_event_types)
            THEN /\ events[id].room_id \notin DOMAIN room_cache'
                 /\ \A r \in (DOMAIN room_cache) \ {events[id].room_id} :
                        /\ r \in DOMAIN room_cache'
                        /\ room_cache'[r] = room_cache[r]
                        /\ heap'[room_cache'[r].data] = heap[room_cache[r].data]
            ELSE /\ room_cache' = room_cache
                 /\ heap' = heap ]_vars

\* C3 witness: with a tracked type configured, timeline and untracked
\* events were delivered for a room that is cached, the entry being still
\* there.
C3_Witness ==
    /\ TypesConfigured
    /\ \E id \in DOMAIN events :
          /\ id \notin undelivered
          /\ ~events[id].is_state
          /\ events[id].room_id \in DOMAIN room_cache
          /\ room_cache[events[id].room_id].timestamp <= events[id].origin_server_ts
    /\ \E id \in DOMAIN events :
          /\ id \notin undelivered
          /\ events[id].is_state
          /\ events[id].type = UNTRACKED_TYPE

\* C10: a call asking for one room R whose entry has reached the TTL does
\* not serve that entry: it issues an aggregation query covering R and
\* stores a new entry with a later timestamp.
C10_ExpiredEntryIsRefetched ==
    \A p \in Procs :
        LET c == calls[p] IN
        (c.pc = "done" /\ Len(c.rooms) = 1) =>
            \A R \in DOMAIN c.expired0 :
                /\ R \notin c.hits
                /\ c.nqueries = 1
                /\ R \in c.qrooms
                /\ R \in DOMAIN c.stored
                /\ c.stored[R].timestamp > c.expired0[R]
                /\ R \in DOMAIN room_cache
                /\ room_cache[R].timestamp = c.stored[R].timestamp
                /\ heap[room_cache[R].data] = c.ret[R]

\* C10 witness: such a call has returned a non-empty payload.
C10_Witness ==
    \E p \in Procs :
        /\ calls[p].pc = "done"
        /\ Len(calls[p].rooms) = 1
        /\ calls[p].expired0 # EmptyDict
        /\ calls[p].ret[calls[p].rooms[1]] # EmptyDict

\* C8: two overlapping calls that both found room R absent from the cache
\* do not both issue an aggregation query covering R.
C8_ConcurrentMissesQueryOnce ==
    \A p, q \in Procs :
        (/\ p # q
         /\ InFlight(calls[p]) /\ InFlight(calls[q])
         /\ "!r1" \in calls[p].absent0 \cap calls[q].absent0)
        => ~("!r1" \in calls[p].qrooms \cap calls[q].qrooms)

\* C9: when room R was invalidated while a call in flight had already taken
\* R from the cache, the next call asking for R does not serve R from the
\* cache: it issues an aggregation query covering R.
C9_NextCallAfterStaleHitReaggregates ==
    \A p \in Procs :
        LET c == calls[p] IN
        c.pc = "done" =>
            \A R \in c.refetch : R \in c.qrooms /\ R \notin c.hits

\* The events of the log, as the query saw it, that the WHERE clause selects.
Selected(c) ==
    { id \in 1..c.qlen :
        /\ events[id].is_state
        /\ events[id].room_id \in Range(c.rooms_to_fetch)
        /\ events[id].type \in Range(config.room_preview_state_event_types) }

\* C7: after the rows are folded, the per-room map holds, for every (room,
\* tracked type, state key) of the event log, an event of that triple whose
\* origin_server_ts is the greatest of the triple, on either database engine.
C7_FoldKeepsMostRecentEvent ==
    \A p \in Procs :
        LET c == calls[p] IN
        c.pc = "mem" =>
            \A id \in Selected(c) :
                LET e == events[id]
                    d == c.fetched_room_data[e.room_id]
                IN  /\ e.type \in DOMAIN d
                    /\ NormalizeKey(e.state_key) \in DOMAIN d[e.type]
                    /\ d[e.type][NormalizeKey(e.state_key)].origin_server_ts
                           >= e.origin_server_ts

\* The same statement for the PostgreSQL branch alone.
C7_PostgresKeepsMostRecentEvent ==
    config.database_engine = "psycopg2" => C7_FoldKeepsMostRecentEvent

\* The admitted calls of user u whose timestamps lie in the window of
\* burst_duration_seconds that ends at time T.
AdmittedInWindow(u, T) ==
    LET a == WindowOf(hist.admitted, u)
    IN  { i \in 1..Len(a) :
            a[i] <= T /\ T - a[i] <= config.burst_duration_seconds }

\* C4 as stated: for every user and every interleaving of is_rate_limited
\* calls, the number of admitted calls within any trailing window of
\* burst_duration_seconds never exceeds requests_per_burst.
C4_AdmittedNeverExceedBurst ==
    \A u \in Users, T \in 0..now :
        Cardinality(AdmittedInWindow(u, T)) <= config.requests_per_burst

\* C4 amended: the same bound, for requests_per_burst >= 0.
C4_AdmittedNeverExceedNonNegativeBurst ==
    config.requests_per_burst >= 0 =>
        \A u \in Users, T \in 0..now :
            Cardinality(AdmittedInWindow(u, T)) <= config.requests_per_burst

\* A call of a user is refused at an instant at which the same user already
\* had requests_per_burst >= 1 calls admitted, while another user is served.
C4_Witness ==
    /\ config.requests_per_burst >= 1
    /\ hist.rl.user = "@a" /\ hist.rl.limited
    /\ Cardinality(AdmittedInWindow("@a", now)) = config.requests_per_burst
    /\ \E i \in 1..Len(hist.rl.prior) : hist.rl.prior[i] = hist.rl.t
    /\ WindowOf(hist.admitted, "@b") # <<>>

\* C5: with requests_per_burst = N >= 1 and burst_duration_seconds = W, the
\* call that follows N admitted calls of the user is refused when it comes
\* within W seconds of the first of them, and is admitted when it comes more
\* than W seconds after the first of them.
C5_BurstRefusedThenAdmittedAfterWindow ==
    LET c == hist.rl IN
    (/\ c.user # None
     /\ config.requests_per_burst >= 1
     /\ Len(c.prior) = config.requests_per_burst)
    => /\ (c.t - c.prior[1] <= config.burst_duration_seconds) => c.limited
       /\ (c.t - c.prior[1] > config.burst_duration_seconds) => ~c.limited

\* Both cases of C5 at the window's edge: the call comes exactly W > 0
\* seconds after the first admitted call and is refused.
C5_Witness ==
    LET c == hist.rl IN
    /\ c.user # None
    /\ config.requests_per_burst >= 1
    /\ config.burst_duration_seconds >= 1
    /\ Len(c.prior) = config.requests_per_burst
    /\ c.t - c.prior[1] = config.burst_duration_seconds
    /\ c.limited

\* The (N+1)-th call comes more than W seconds after the first and is admitted.
C5_WitnessAdmitted ==
    LET c == hist.rl IN
    /\ c.user # None
    /\ config.requests_per_burst >= 1
    /\ Len(c.prior) = config.requests_per_burst
    /\ c.t - c.prior[1] > config.burst_duration_seconds
    /\ ~c.limited

\* The window of the last call's user as the call found it, without the
\* timestamps older than burst_duration_seconds.
PrunedBefore ==
    LET c == hist.rl
        Fresh(ts) == c.t - ts <= config.burst_duration_seconds
    IN  SelectSeq(c.before, Fresh)

\* C6: a call at time now prunes the user's window; if the pruned window
\* has at least requests_per_burst timestamps the call is refused and the
\* window is left as pruned; otherwise now is appended, also when the window
\* already holds an equal timestamp, and the call is admitted.
C6_RefusedLeavesPrunedElseAppends ==
    LET c == hist.rl IN
    c.user # None =>
        IF Len(PrunedBefore) >= config.requests_per_burst
        THEN c.limited /\ request_log[c.user] = PrunedBefore
        ELSE ~c.limited /\ request_log[c.user] = Append(PrunedBefore, c.t)

\* An admitted call appended a timestamp equal to one already in the window.
C6_Witness ==
    LET c == hist.rl IN
    /\ c.user # None /\ ~c.limited
    /\ \E i \in 1..Len(PrunedBefore) : PrunedBefore[i] = c.t
    /\ Len(request_log[c.user]) = Len(PrunedBefore) + 1

\* C11: an invalidation of room R removes R's entry and no other: every
\* other cached room keeps its payload and its timestamp, and is still
\* found by _get_cached_room.
C11_InvalidateRemovesOnlyThatRoom ==
    [][ \A id \in 1..MaxEvents :
          (OnNewEvent(id) /\ Invalidates(events[id], config)) =>
              /\ events[id].room_id \notin DOMAIN room_cache'
              /\ \A r \in (DOMAIN room_cache) \ {events[id].room_id} :
                     /\ r \in DOMAIN room_cache'
                     /\ room_cache'[r].timestamp = room_cache[r].timestamp
                     /\ heap'[room_cache'[r].data] = heap[room_cache[r].data]
                     /\ _get_cached_room(room_cache', r, now').data
                           = _get_cached_room(room_cache, r, now).data
                     /\ _get_cached_room(room_cache', r, now').data # NoData
      ]_vars

\* C11 witness: a call asking for !r1 and !r2, both cached, during which !r1
\* was invalidated, has served !r2 from the cache, where !r2 still is.
C11_Witness ==
    LET c == calls[1] IN
    /\ c.pc = "done" /\ c.rooms = <<"!r1", "!r2">>
    /\ c.absent0 = {} /\ c.inval = {"!r1"}
    /\ "!r2" \in c.hits
    /\ "!r2" \in DOMAIN room_cache /\ "!r1" \notin DOMAIN room_cache

\* C12: an invalidation of a room that has no cache entry leaves the cache
\* (keys, payloads, timestamps) as it was, an empty cache included, and
\* invalidating a room twice gives what invalidating it once gives.
C12_InvalidateUnknownRoomIsNoOp ==
    [][ /\ \A id \in 1..MaxEvents :
             (/\ OnNewEvent(id)
              /\ Invalidates(events[id], config)
              /\ events[id].room_id \notin DOMAIN room_cache)
             => /\ room_cache' = room_cache
                /\ \A r \in DOMAIN room_cache :
                       heap'[room_cache'[r].data] = heap[room_cache[r].data]
        /\ \A r \in Rooms :
             invalidate_room_cache(invalidate_room_cache(room_cache', r), r)
                = invalidate_room_cache(room_cache', r)
      ]_vars

\* C12 witness: !r1 was invalidated while it had no entry and !r2 had one.
C12_Witness ==
    LET c == calls[1] IN
    /\ c.pc = "hit"
    /\ "!r1" \in c.absent0 \cap c.inval
    /\ "!r2" \in DOMAIN room_cache

\* The state events of room r in the event log whose type is tracked.
TrackedStateEvents(r) ==
    { id \in 1..Len(events) :
        /\ events[id].is_state
        /\ events[id].room_id = r
        /\ events[id].type \in Range(config.room_preview_state_event_types) }

\* C13: for a non-empty room list and non-empty tracked types the keys of the
\* result are exactly the requested rooms, whatever mix of hits and misses
\* occurred, and a requested room without any tracked state event maps to
\* the empty map.
C13_ResultKeysAreRequestedRooms ==
    \A p \in Procs :
        LET c == calls[p] IN
        (c.pc = "done" /\ c.rooms # <<>> /\ TypesConfigured) =>
            /\ DOMAIN c.ret = Range(c.rooms)
            /\ \A R \in Range(c.rooms) :
                   TrackedStateEvents(R) = {} => c.ret[R] = EmptyDict

\* C13 witness: a call served !r1 from the cache and fetched !r2, which has
\* no tracked state event.
C13_Witness ==
    LET c == calls[1] IN
    /\ c.pc = "done" /\ c.rooms = <<"!r1", "!r2">>
    /\ c.hits = {"!r1"} /\ c.qrooms = {"!r2"}
    /\ TrackedStateEvents("!r2") = {}
    /\ c.ret["!r1"] # EmptyDict /\ c.ret["!r2"] = EmptyDict

\* Every m.room.join_rules event of the payload has a content with no key
\* but join_rule, whose value is that of the event in the event log.
JoinRulesFiltered(room_data) ==
    EVENT_TYPE_M_ROOM_JOIN_RULES \in DOMAIN room_data =>
        \A k \in DOMAIN room_data[EVENT_TYPE_M_ROOM_JOIN_RULES] :
            LET ev == room_data[EVENT_TYPE_M_ROOM_JOIN_RULES][k]
                original == events[ev.event_id].content
            IN  /\ DOMAIN ev.content \subseteq {JOIN_RULE_CONTENT_KEY}
                /\ JOIN_RULE_CONTENT_KEY \in DOMAIN original =>
                      /\ JOIN_RULE_CONTENT_KEY \in DOMAIN ev.content
                      /\ ev.content[JOIN_RULE_CONTENT_KEY]
                            = original[JOIN_RULE_CONTENT_KEY]

\* C14: every m.room.join_rules event in a payload that is stored in the
\* cache or returned by a call, on a miss or on a later hit, has a content
\* with no key other than join_rule, with the original event's value.
C14_JoinRulesContentIsFiltered ==
    /\ \A r \in DOMAIN room_cache : JoinRulesFiltered(heap[room_cache[r].data])
    /\ \A p \in Procs :
          calls[p].pc = "done" =>
              \A R \in DOMAIN calls[p].ret : JoinRulesFiltered(calls[p].ret[R])

\* C14 witness: a cache hit returned a join-rules event whose original
\* content has an allow-list.
C14_Witness ==
    LET c == calls[1] IN
    /\ c.pc = "done" /\ "!r1" \in c.hits
    /\ EVENT_TYPE_M_ROOM_JOIN_RULES \in DOMAIN c.ret["!r1"]
    /\ \E k \in DOMAIN c.ret["!r1"][EVENT_TYPE_M_ROOM_JOIN_RULES] :
          "allow" \in DOMAIN
              events[c.ret["!r1"][EVENT_TYPE_M_ROOM_JOIN_RULES][k].event_id].content

HasRoles(room_data) == PANGEA_ACTIVITY_ROLE_STATE_EVENT_TYPE \in DOMAIN room_data

\* The memberships, at the instant of the membership query, of the users
\* that the roles of the payload name.
ExpectedSummary(room_data, seen) ==
    [u \in PayloadRoleUsers(room_data) \cap DOMAIN seen.members
        |-> seen.members[u]]

\* C15: in a returned payload with the activity-roles type, membership_summary
\* maps exactly the users that a role entry names and that have a membership
\* event in the room to their membership as the (successful) membership
\* query of the call found it; no other user of the roster appears.
C15_SummaryHoldsExactlyRoleUsers ==
    \A p \in Procs :
        LET c == calls[p] IN
        c.pc = "done" =>
            \A R \in DOMAIN c.ret :
                (HasRoles(c.ret[R]) /\ c.seen[R].ok) =>
                    /\ MEMBERSHIP_SUMMARY_KEY \in DOMAIN c.ret[R]
                    /\ c.ret[R][MEMBERSHIP_SUMMARY_KEY]
                          = ExpectedSummary(c.ret[R], c.seen[R])

\* C15 witness: the roles name @a only, @a has left and @b is joined: the
\* summary is @a: leave.
C15_Witness ==
    LET c == calls[1] IN
    /\ c.pc = "done" /\ "!r1" \in DOMAIN c.ret
    /\ HasRoles(c.ret["!r1"]) /\ c.seen["!r1"].ok
    /\ PayloadRoleUsers(c.ret["!r1"]) = {"@a"}
    /\ DOMAIN c.seen["!r1"].members = {"@a", "@b"}
    /\ c.seen["!r1"].members["@a"] = "leave"
    /\ DOMAIN c.ret["!r1"][MEMBERSHIP_SUMMARY_KEY] = {"@a"}

\* C16: when the membership of a user named by a role of cached room R has
\* changed (no invalidation follows), the next call asking for R within the
\* TTL issues no aggregation query, serves R from the cache, and reports the
\* memberships that its own membership query found.
C16_HitRecomputesSummary ==
    \A p \in Procs :
        LET c == calls[p] IN
        (/\ c.pc = "done" /\ Len(c.rooms) = 1
         /\ c.rooms[1] \in c.changed0
         /\ c.rooms[1] \notin c.absent0
         /\ c.rooms[1] \notin DOMAIN c.expired0
         /\ c.seen[c.rooms[1]].ok)
        => LET R == c.rooms[1] IN
           /\ c.nqueries = 0
           /\ R \in c.hits
           /\ HasRoles(c.ret[R])
           /\ \A u \in PayloadRoleUsers(c.ret[R]) \cap DOMAIN members[R] :
                  /\ u \in DOMAIN c.ret[R][MEMBERSHIP_SUMMARY_KEY]
                  /\ c.ret[R][MEMBERSHIP_SUMMARY_KEY][u] = members[R][u]

\* C16 witness: @a left after !r1 was cached; the next call is a hit that
\* reports @a: leave.
C16_Witness ==
    LET c == calls[1] IN
    /\ c.pc = "done" /\ c.rooms = <<"!r1">>
    /\ c.changed0 = {"!r1"} /\ c.hits = {"!r1"} /\ c.nqueries = 0
    /\ c.seen["!r1"].ok
    /\ "@a" \in DOMAIN c.ret["!r1"][MEMBERSHIP_SUMMARY_KEY]
    /\ c.ret["!r1"][MEMBERSHIP_SUMMARY_KEY]["@a"] = "leave"

\* Every activity-roles event of the payload has the content that the event
\* has in the event log.
RolesUnaltered(room_data) ==
    HasRoles(room_data) =>
        \A k \in DOMAIN room_data[PANGEA_ACTIVITY_ROLE_STATE_EVENT_TYPE] :
            LET ev == room_data[PANGEA_ACTIVITY_ROLE_STATE_EVENT_TYPE][k]
            IN  ev.content = events[ev.event_id].content

NoSummaryWithoutRoles(room_data) ==
    ~HasRoles(room_data) => MEMBERSHIP_SUMMARY_KEY \notin DOMAIN room_data

C19_CoursePlanRoomHasSummary ==
    \A p \in Procs :
        LET c == calls[p] IN
        c.pc = "done" =>
            \A R \in DOMAIN c.ret :
                (/\ COURSE_PLAN_TYPE \in DOMAIN c.ret[R]
                 /\ ~HasRoles(c.ret[R])
                 /\ c.seen[R].ok)
                => /\ MEMBERSHIP_SUMMARY_KEY \in DOMAIN c.ret[R]
                   /\ c.ret[R][MEMBERSHIP_SUMMARY_KEY] = c.seen[R].members

\* C20: when the membership lookup of a room fails, the call still returns a
\* payload for every requested room; the failing room, if it has the
\* activity-roles type, gets an empty membership_summary, and every other
\* room of the batch gets the summary of its own lookup, on the miss path
\* and on the hit path.
C20_FailedLookupGivesEmptySummary ==
    \A p \in Procs :
        LET c == calls[p] IN
        (c.pc = "done" /\ c.rooms # <<>> /\ TypesConfigured) =>
            /\ DOMAIN c.ret = Range(c.rooms)
            /\ \A R \in DOMAIN c.ret :
                   HasRoles(c.ret[R]) =>
                       /\ MEMBERSHIP_SUMMARY_KEY \in DOMAIN c.ret[R]
                       /\ c.ret[R][MEMBERSHIP_SUMMARY_KEY]
                             = IF c.seen[R].ok
                               THEN ExpectedSummary(c.ret[R], c.seen[R])
                               ELSE EmptyDict

\* C20 witness: the lookup of !r1, served from the cache, failed although a
\* user named by its roles has a membership; !r2, fetched in the same call,
\* has its summary.
C20_Witness ==
    LET c == calls[1] IN
    /\ c.pc = "done" /\ c.rooms = <<"!r1", "!r2">>
    /\ "!r1" \in c.hits /\ "!r2" \in c.qrooms
    /\ HasRoles(c.ret["!r1"]) /\ ~c.seen["!r1"].ok
    /\ PayloadRoleUsers(c.ret["!r1"]) \cap DOMAIN c.seen["!r1"].members # {}
    /\ c.ret["!r1"][MEMBERSHIP_SUMMARY_KEY] = EmptyDict
    /\ HasRoles(c.ret["!r2"])
    /\ c.ret["!r2"][MEMBERSHIP_SUMMARY_KEY] # EmptyDict

\* The same on the miss path: the failing room was fetched.
C20_WitnessMiss ==
    LET c == calls[1] IN
    /\ c.pc = "done"
    /\ "!r1" \in c.qrooms
    /\ HasRoles(c.ret["!r1"]) /\ ~c.seen["!r1"].ok
    /\ PayloadRoleUsers(c.ret["!r1"]) \cap DOMAIN c.seen["!r1"].members # {}
    /\ c.ret["!r1"][MEMBERSHIP_SUMMARY_KEY] = EmptyDict

\* C21: when the aggregation query of a call fails, the call ends with the
\* error: it has no result map, it has stored no entry, and no room it was
\* fetching has a cache entry.
C21_QueryFailureFailsTheBatch ==
    \A p \in Procs :
        LET c == calls[p] IN
        c.qfailed =>
            /\ c.pc = "raised"
            /\ c.ret = EmptyDict
            /\ c.stored = EmptyDict
            /\ Range(c.rooms_to_fetch) \cap DOMAIN room_cache = {}

\* C21 witness: the query failed in a call for two rooms, one served from
\* the cache and one being fetched after its entry had expired.
C21_Witness ==
    LET c == calls[1] IN
    /\ c.pc = "raised" /\ c.qfailed
    /\ c.rooms = <<"!r1", "!r2">>
    /\ "!r1" \in c.hits
    /\ c.rooms_to_fetch = <<"!r2">>
    /\ "!r2" \in DOMAIN c.expired0
    /\ "!r1" \in DOMAIN room_cache

\* C22: a call with an empty room list, or with no tracked event types
\* configured, returns {} at once: it issues no aggregation query and no
\* membership query, and the cache is left as it was (nothing swept,
\* evicted or stored).
C22_EmptyInputReturnsAtOnce ==
    [][ \A p \in Procs :
          (/\ calls[p].pc = "idle"
           /\ calls'[p].pc # "idle"
           /\ \/ calls'[p].rooms = <<>>
              \/ config.room_preview_state_event_types = <<>>)
          => /\ calls'[p].pc = "done"
             /\ calls'[p].ret = EmptyDict
             /\ calls'[p].nqueries = 0
             /\ calls'[p].qrooms = {}
             /\ calls'[p].hits = {}
             /\ calls'[p].seen = EmptyDict
             /\ calls'[p].stored = EmptyDict
             /\ room_cache' = room_cache
             /\ heap' = heap ]_vars

\* C22 witness: a call with an empty room list has returned while the cache
\* holds an entry that has outlived the TTL.
C22_Witness ==
    /\ calls[1].pc = "done" /\ calls[1].rooms = <<>>
    /\ calls[1].ret = EmptyDict
    /\ \E r \in DOMAIN room_cache :
          now - room_cache[r].timestamp >= CACHE_TTL_SECONDS

\* The same with no tracked types configured and a room asked for.
C22_WitnessNoTypes ==
    /\ calls[1].pc = "done" /\ calls[1].rooms # <<>>
    /\ config.room_preview_state_event_types = <<>>
    /\ calls[1].ret = EmptyDict

\* What get_room_preview(room_ids) returns from an empty cache for the
\* event log given: one result map per result set the query may return.
GetPreviewResults(room_ids, log) ==
    { [r \in Range(room_ids) |->
          _add_membership_summary(FoldRows(room_ids, rows)[r],
                                  _get_membership_summary(r))] :
        rows \in ExecuteQuery(config.database_engine, log, room_ids,
                              config.room_preview_state_event_types) }

\* C23: an authenticated, admitted request with a non-empty list of room
\* ids is answered with 200 and {"rooms": M}, where M is what
\* get_room_preview gives for these room ids: each room's tracked state
\* events, or {} for a room without any.
C23_ResponseIsGetPreview ==
    (/\ http.pc = "done"
     /\ http.requester_id # None
     /\ ~http.limited
     /\ http.room_ids # <<>>)
    => /\ http.status = 200
       /\ http.body.rooms
            \in GetPreviewResults(http.room_ids, SubSeq(events, 1, http.at))

\* C24: a request the rate limiter refuses is answered with 429 and the
\* error body; its room ids are not parsed, and the cache, the dicts it
\* refers to and the get_room_preview calls are as they were (no cache
\* read, no sweep, no aggregation query, no membership query).
C24_RefusedRequestDoesNoPreviewWork ==
    [][ (http.pc = "auth" /\ http'.pc = "done" /\ http'.limited)
        => /\ http'.status = 429
           /\ http'.body = [error |-> "Rate limited"]
           /\ http'.room_ids = <<>>
           /\ room_cache' = room_cache
           /\ heap' = heap
           /\ calls' = calls ]_vars

\* C24 witness: a request naming a room was refused while the cache holds
\* an entry of that room that has outlived the TTL.
C24_Witness ==
    /\ http.pc = "done" /\ http.limited /\ http.status = 429
    /\ http.rooms_param = <<"!r1">>
    /\ "!r1" \in DOMAIN room_cache
    /\ now - room_cache["!r1"].timestamp >= CACHE_TTL_SECONDS

\* C25: a request without an Authorization header, or with a token no user
\* owns, is answered with 401, error Unauthorized and errcode
\* M_UNAUTHORIZED.
C25_AuthenticationFailureIs401 ==
    (http.pc = "done" /\ get_user_by_req(http.token) = None)
    => /\ http.status = 401
       /\ http.body = [error |-> "Unauthorized", errcode |-> "M_UNAUTHORIZED"]

\* The state events of room r in the first n events of the log whose type
\* is tracked and whose state key is empty or missing.
EmptyKeyEvents(r, n) ==
    { e \in Range(SubSeq(events, 1, n)) :
        /\ e.is_state /\ e.room_id = r
        /\ e.type \in Range(config.room_preview_state_event_types)
        /\ e.state_key \in {"", None} }

\* C26: in every returned payload an event whose state key in the event
\* log is empty or missing stands under the state key "default", every
\* other event under its own state key, and the empty string is no state
\* key of any payload; a fetched room with such an event has the key
\* "default" under the event's type.
C26_EmptyStateKeyBecomesDefault ==
    \A p \in Procs :
        LET c == calls[p] IN
        c.pc = "done" =>
            \A R \in DOMAIN c.ret :
                /\ \A t \in (DOMAIN c.ret[R]) \ {MEMBERSHIP_SUMMARY_KEY} :
                      /\ "" \notin DOMAIN c.ret[R][t]
                      /\ None \notin DOMAIN c.ret[R][t]
                      /\ \A k \in DOMAIN c.ret[R][t] :
                            LET e == events[c.ret[R][t][k].event_id]
                            IN  k = IF e.state_key \in {"", None}
                                    THEN "default" ELSE e.state_key
                /\ R \in c.qrooms =>
                      \A e \in EmptyKeyEvents(R, c.qlen) :
                          /\ e.type \in DOMAIN c.ret[R]
                          /\ "default" \in DOMAIN c.ret[R][e.type]

\* C26 witness: a returned payload holds an event with the empty state key
\* under "default", next to an event under its own state key.
C26_Witness ==
    LET c == calls[1] IN
    /\ c.pc = "done" /\ "!r1" \in c.qrooms
    /\ TRACKED_TYPE \in DOMAIN c.ret["!r1"]
    /\ DOMAIN c.ret["!r1"][TRACKED_TYPE] = {"default", "@a"}
    /\ events[c.ret["!r1"][TRACKED_TYPE]["default"].event_id].state_key = ""

\* The same for an event whose state key is missing.
C26_WitnessMissing ==
    LET c == calls[1] IN
    /\ c.pc = "done" /\ "!r1" \in c.qrooms
    /\ TRACKED_TYPE \in DOMAIN c.ret["!r1"]
    /\ "default" \in DOMAIN c.ret["!r1"][TRACKED_TYPE]
    /\ events[c.ret["!r1"][TRACKED_TYPE]["default"].event_id].state_key = None

\* The folds of all result sets the aggregation query of call c may return
\* for the event log as the call saw it.
PossibleFolds(c, engine) ==
    { FoldRows(c.rooms_to_fetch, rows) :
        rows \in ExecuteQuery(engine, SubSeq(events, 1, c.qlen),
                              c.rooms_to_fetch,
                              config.room_preview_state_event_types) }

\* Two selected events of one (room, type, state key) with one timestamp.
HasTies(c) ==
    \E i, j \in Selected(c) :
        /\ i # j
        /\ SameGroup(events[i], events[j])
        /\ events[i].origin_server_ts = events[j].origin_server_ts

\* C27: what a call has aggregated is what every aggregation query for the
\* same rooms and types against the same event log gives: the same event for
\* every (room, type, state key), also when events of one triple carry the
\* same timestamp.
C27_AggregationIsDeterministic ==
    \A p \in Procs :
        LET c == calls[p] IN
        c.pc = "mem" =>
            PossibleFolds(c, config.database_engine) = {c.fetched_room_data}

\* The same statement for event logs without equal timestamps in a triple.
C27_DeterministicWithoutTies ==
    \A p \in Procs :
        LET c == calls[p] IN
        (c.pc = "mem" /\ ~HasTies(c)) =>
            PossibleFolds(c, config.database_engine) = {c.fetched_room_data}

\* Two selected events of one (room, type, state key).
HasVersions(c) ==
    \E i, j \in Selected(c) : i # j /\ SameGroup(events[i], events[j])

\* C28: for the event log, rooms and types of an aggregation, the SQLite
\* branch and the PostgreSQL branch fold to the same per-room payloads.
C28_EnginesGiveEqualPayloads ==
    \A p \in Procs :
        LET c == calls[p] IN
        c.pc = "mem" =>
            PossibleFolds(c, "sqlite3") = PossibleFolds(c, "psycopg2")

\* The same statement for event logs with one event per triple.
C28_EnginesAgreeOnSingleVersions ==
    \A p \in Procs :
        LET c == calls[p] IN
        (c.pc = "mem" /\ ~HasVersions(c)) =>
            PossibleFolds(c, "sqlite3") = PossibleFolds(c, "psycopg2")

\* The tracked state events of room R that were persisted after call c read
\* its rows and whose invalidation has run.
InvalidatedSinceQuery(c, R) ==
    { id \in (c.qlen + 1)..Len(events) :
        /\ Invalidates(events[id], config)
        /\ events[id].room_id = R
        /\ id \notin undelivered }

\* C29: a call does not put the payload of room R into the cache when the
\* invalidation of a tracked state event of R, persisted after the call read
\* its rows, has already run.
C29_NoStaleStoreAfterInvalidation ==
    [][ \A p \in Procs : \A R \in Rooms :
          (R \in DOMAIN calls'[p].stored /\ R \notin DOMAIN calls[p].stored)
          => InvalidatedSinceQuery(calls[p], R) = {} ]_vars

\* C30: for the cache and the clock of any moment and any room id,
\* _get_cached_room returns the payload if and only if the room has an entry
\* with now - timestamp < TTL, and then leaves the cache, the entry's
\* timestamp included, as it is; for an entry that is not valid it returns
\* nothing and removes exactly that entry; for a room without an entry it
\* returns nothing and changes nothing.
C30_GetReturnsFreshAndEvictsStale ==
    \A r \in Rooms :
        LET got == _get_cached_room(room_cache, r, now)
            fresh == /\ r \in DOMAIN room_cache
                     /\ now - room_cache[r].timestamp < CACHE_TTL_SECONDS
        IN  /\ (got.data # NoData) <=> fresh
            /\ fresh => /\ got.data = room_cache[r].data
                        /\ got.cache = room_cache
            /\ ~fresh =>
                   /\ DOMAIN got.cache = (DOMAIN room_cache) \ {r}
                   /\ \A o \in DOMAIN got.cache : got.cache[o] = room_cache[o]

\* C30 witness: a call served !r1 from the cache and, resuming after its
\* membership query, found the entry of !r2, valid when the call started,
\* not valid any more: the entry is gone and !r2 is fetched, while the
\* entry of !r1 is still there.
C30_Witness ==
    LET c == calls[1] IN
    /\ c.pc = "db" /\ c.rooms = <<"!r1", "!r2">>
    /\ c.hits = {"!r1"} /\ c.rooms_to_fetch = <<"!r2">>
    /\ "!r2" \notin c.absent0 /\ "!r2" \notin DOMAIN c.expired0
    /\ "!r2" \notin c.inval
    /\ "!r2" \notin DOMAIN room_cache
    /\ "!r1" \in DOMAIN room_cache

\* C31: for the cache and the clock of any moment, _cleanup_expired_cache
\* removes exactly the entries with now - timestamp >= TTL and leaves the
\* data and timestamp of every other entry as they are; every entry left is
\* one _get_cached_room serves at that instant and every entry removed is
\* one it does not serve, an entry of age exactly TTL included.
C31_SweepRemovesExactlyExpired ==
    LET swept == _cleanup_expired_cache(room_cache, now)
    IN  /\ DOMAIN swept =
              { r \in DOMAIN room_cache :
                  now - room_cache[r].timestamp < CACHE_TTL_SECONDS }
        /\ \A r \in DOMAIN swept : swept[r] = room_cache[r]
        /\ \A r \in DOMAIN swept :
              _get_cached_room(swept, r, now).data = room_cache[r].data
        /\ \A r \in (DOMAIN room_cache) \ DOMAIN swept :
              _get_cached_room(room_cache, r, now).data = NoData

\* C31 witness: a call for two rooms started when the entry of !r1 was
\* exactly TTL old and the entry of !r2 younger: the sweep removed the
\* first, and the second is served from the cache.
C31_Witness ==
    LET c == calls[1] IN
    /\ c.pc = "hit" /\ c.rooms = <<"!r1", "!r2">>
    /\ "!r1" \in DOMAIN c.expired0
    /\ now - c.expired0["!r1"] = CACHE_TTL_SECONDS
    /\ c.rooms_to_fetch = <<"!r1">>
    /\ "!r1" \notin DOMAIN room_cache
    /\ "!r2" \in DOMAIN room_cache
    /\ now - room_cache["!r2"].timestamp < CACHE_TTL_SECONDS

\* C32: a cache hit, from the validity check to the write of the membership
\* summary, leaves the entry of the room in the cache with the timestamp and
\* the dict it had, and leaves everything in that dict but membership_summary
\* as it was.
C32_HitKeepsTimestampAndState ==
    [][ \A p \in Procs :
          /\ (calls[p].pc = "idle" /\ calls'[p].pc = "hit")
             => LET R == calls'[p].rooms[calls'[p].i]
                IN  /\ R \in DOMAIN room_cache /\ R \in DOMAIN room_cache'
                    /\ room_cache'[R] = room_cache[R]
                    /\ heap'[room_cache[R].data] = heap[room_cache[R].data]
          /\ \A R \in calls'[p].hits \ calls[p].hits :
                R \in DOMAIN room_cache
                => /\ R \in DOMAIN room_cache'
                   /\ room_cache'[R] = room_cache[R]
                   /\ StripSummary(heap'[room_cache[R].data])
                        = StripSummary(heap[room_cache[R].data]) ]_vars

\* C32 witness: a call served !r1 from an entry stored at an earlier time,
\* after the membership of a user named by its roles had changed: the entry
\* holds the new summary and still has its old timestamp.
C32_Witness ==
    LET c == calls[1] IN
    /\ c.pc = "done" /\ "!r1" \in c.hits /\ "!r1" \in c.changed0
    /\ "!r1" \in DOMAIN room_cache
    /\ room_cache["!r1"].timestamp < now
    /\ heap[room_cache["!r1"].data] = c.ret["!r1"]
    /\ HasRoles(c.ret["!r1"])
    /\ c.ret["!r1"][MEMBERSHIP_SUMMARY_KEY] # EmptyDict

\* The entry of room R is fresh: present and younger than the TTL.
FreshEntry(R) ==
    /\ R \in DOMAIN room_cache
    /\ now - room_cache[R].timestamp < CACHE_TTL_SECONDS

\* The rooms at positions lo..hi of a list, in order.
RoomsAt(rooms, lo, hi) == [j \in 1..(hi - lo + 1) |-> rooms[lo + j - 1]]

\* C33: a call that gets past its early return (rooms requested, tracked
\* types configured) issues at most one aggregation query; every room the
\* first loop examines is served from the cache exactly when its entry is
\* fresh at that moment and is put on the list to fetch otherwise; the query
\* is issued exactly when that list is not empty, and it covers exactly the
\* rooms of the list, none of them served from the cache.
C33_OneQueryForExactlyTheMisses ==
    [][ \A p \in Procs :
          LET c == calls[p]
              d == calls'[p]
              lo == IF c.pc = "idle" THEN 1 ELSE c.i + 1
              hi == IF d.pc = "hit" THEN d.i ELSE Len(d.rooms)
          IN  (d.rooms # <<>> /\ TypesConfigured) =>
              /\ d.nqueries <= 1
              /\ (c.pc \in {"idle", "hit"} /\ d # c) =>
                    /\ \A j \in lo..hi :
                          FreshEntry(d.rooms[j]) <=> (d.pc = "hit" /\ j = d.i)
                    /\ d.rooms_to_fetch
                         = c.rooms_to_fetch
                           \o RoomsAt(d.rooms, lo, IF d.pc = "hit" THEN hi - 1 ELSE hi)
                    /\ d.nqueries = (IF d.pc = "db" THEN 1 ELSE 0)
                    /\ d.pc = "db" <=> (d.pc # "hit" /\ d.rooms_to_fetch # <<>>)
              /\ d.pc \in {"db", "mem", "done", "raised"} =>
                    /\ d.nqueries = 1 <=> d.rooms_to_fetch # <<>>
                    /\ d.qrooms = Range(d.rooms_to_fetch)
                    /\ d.qrooms \cap d.hits = {}
                    /\ d.qrooms \cup d.hits = Range(d.rooms) ]_vars

\* C33 witness: a call on !r1 and !r2 found !r1 expired and !r2 fresh, served
\* !r2 from the cache and issued its one query for !r1 alone.
C33_Witness ==
    LET c == calls[1] IN
    /\ c.pc = "done" /\ c.rooms = <<"!r1", "!r2">>
    /\ "!r1" \in DOMAIN c.expired0
    /\ c.hits = {"!r2"}
    /\ c.nqueries = 1 /\ c.qrooms = {"!r1"}
    /\ c.rooms_to_fetch = <<"!r1">>

\* C34: when the last call of a user found a window of N = requests_per_burst
\* >= 2 timestamps t1 < t2 <= ... <= tN, at a time t with t - t1 > W and
\* t - t2 <= W, the call was admitted and the window it left is t2, ..., tN, t:
\* one slot was freed and taken, and a further call at the same time t is
\* refused.
C34_WindowSlidesOneSlotAtATime ==
    LET c == hist.rl
        W == config.burst_duration_seconds
    IN  (/\ c.user # None
         /\ config.requests_per_burst >= 2
         /\ Len(c.before) = config.requests_per_burst
         /\ c.before[1] < c.before[2]
         /\ c.t - c.before[1] > W
         /\ c.t - c.before[2] <= W)
        => /\ ~c.limited
           /\ request_log[c.user] = Append(Tail(c.before), c.t)
           /\ is_rate_limited(request_log, c.user, config, c.t).limited

\* C34 witness: with W >= 1, a call found the full window t1 < t2, the
\* first timestamp aged out and the second still inside, and was admitted.
C34_Witness ==
    LET c == hist.rl IN
    /\ c.user # None /\ ~c.limited
    /\ config.requests_per_burst = 2
    /\ config.burst_duration_seconds >= 1
    /\ Len(c.before) = 2
    /\ c.before[1] < c.before[2]
    /\ c.before[2] < c.t
    /\ c.t - c.before[1] > config.burst_duration_seconds
    /\ c.t - c.before[2] <= config.burst_duration_seconds
    /\ request_log[c.user] = <<c.before[2], c.t>>

\* The number of timestamps of a window that are exactly age seconds old at
\* time t.
CountOfAge(window, t, age) ==
    Cardinality({ i \in 1..Len(window) : t - window[i] = age })

\* C35: a timestamp exactly W = burst_duration_seconds old at the time of a
\* call stays in the window; a call that finds N = requests_per_burst >= 1
\* timestamps is refused when it comes exactly W seconds after the oldest of
\* them, leaving the window as it was, and is admitted exactly when it comes
\* strictly more than W seconds after it.
C35_PruningInclusiveAtWindowEdge ==
    LET c == hist.rl
        W == config.burst_duration_seconds
        own == IF ~c.limited /\ W = 0 THEN 1 ELSE 0
    IN  c.user # None =>
        /\ CountOfAge(request_log[c.user], c.t, W) - own
             = CountOfAge(c.before, c.t, W)
        /\ (config.requests_per_burst >= 1
              /\ Len(c.before) = config.requests_per_burst) =>
             /\ (c.t - c.before[1] = W) =>
                    c.limited /\ request_log[c.user] = c.before
             /\ ~c.limited <=> c.t - c.before[1] > W

\* C35 witness: a call found a full window whose oldest timestamp was
\* exactly W >= 1 seconds old and was refused; the whole window is kept.
C35_Witness ==
    LET c == hist.rl IN
    /\ c.user # None /\ c.limited
    /\ config.requests_per_burst = 2
    /\ config.burst_duration_seconds >= 1
    /\ Len(c.before) = 2
    /\ c.before[1] < c.before[2]
    /\ c.t - c.before[1] = config.burst_duration_seconds
    /\ request_log[c.user] = c.before

\* The call made one second past the edge of a full window is admitted.
C35_WitnessAdmitted ==
    LET c == hist.rl IN
    /\ c.user # None /\ ~c.limited
    /\ config.requests_per_burst >= 1
    /\ config.burst_duration_seconds >= 1
    /\ Len(c.before) = config.requests_per_burst
    /\ c.t - c.before[1] = config.burst_duration_seconds + 1

\* What C36 says of the window the last call left: every timestamp is at
\* most burst_duration_seconds older than the call, there are at most
\* requests_per_burst of them when that limit is not negative, and an
\* admitted call found fewer than requests_per_burst timestamps in the
\* pruned window before it appended its own.
WindowInvariant ==
    LET c == hist.rl
        window == request_log[c.user]
    IN  /\ \A i \in 1..Len(window) :
              c.t - window[i] <= config.burst_duration_seconds
        /\ config.requests_per_burst >= 0
             => Len(window) <= config.requests_per_burst
        /\ ~c.limited => Len(PrunedBefore) < config.requests_per_burst

\* C36 as stated: the window invariant holds after every call of
\* is_rate_limited, admitted or refused.
C36_WindowInvariantAfterEveryCall ==
    hist.rl.user # None => WindowInvariant

\* C36 amended: the window invariant holds after every call when
\* burst_duration_seconds >= 0.
C36_WindowInvariantForNonNegativeWindow ==
    (hist.rl.user # None /\ config.burst_duration_seconds >= 0)
        => WindowInvariant

\* C36 witness: with W >= 1 a call found a timestamp older than W and one
\* inside the window, dropped the first and was admitted next to the second.
C36_Witness ==
    LET c == hist.rl IN
    /\ c.user # None /\ ~c.limited
    /\ config.burst_duration_seconds >= 1
    /\ Len(c.before) = 2 /\ Len(PrunedBefore) = 1
    /\ Len(request_log[c.user]) = 2
    /\ config.requests_per_burst = 2

\* C37: a call of is_rate_limited for user u leaves the list of every other
\* user, the room cache, the cached dicts and the get_room_preview calls in
\* flight as they were, and its answer is fixed by the clock and u's own
\* earlier admitted calls: it is refused exactly when requests_per_burst or
\* more of them are at most burst_duration_seconds old.
C37_RateLimiterTouchesOnlyOwnWindow ==
    [][ hist'.nreq = hist.nreq + 1 =>
          LET u == hist'.rl.user
              own == WindowOf(hist.admitted, u)
              recent == { i \in 1..Len(own) :
                            now - own[i] <= config.burst_duration_seconds }
          IN  /\ \A v \in Users \ {u} :
                    /\ v \in DOMAIN request_log' <=> v \in DOMAIN request_log
                    /\ WindowOf(request_log', v) = WindowOf(request_log, v)
              /\ room_cache' = room_cache
              /\ heap' = heap
              /\ calls' = calls
              /\ hist'.rl.limited
                   <=> Cardinality(recent) >= config.requests_per_burst ]_vars

\* C37 witness: with !r1 in the room cache and the window of @a full, the
\* first call of @b was admitted and left both as they were.
C37_Witness ==
    LET c == hist.rl
        a == WindowOf(request_log, "@a")
    IN  /\ c.user = "@b" /\ ~c.limited /\ c.before = <<>>
        /\ request_log["@b"] = <<c.t>>
        /\ Len(a) = config.requests_per_burst
        /\ \A i \in 1..Len(a) : c.t - a[i] <= config.burst_duration_seconds
        /\ "!r1" \in DOMAIN room_cache
        /\ calls[1].pc = "hit"

\* The operations without an await can run now, while calls are in flight: a
\* call of is_rate_limited (as long as the model has requests left), the delivery of every event not yet announced (with the
\* invalidation it does), and the start of another get_room_preview call
\* (with its sweep).
SynchronousOpsReady ==
    /\ hist.nreq < MaxLiveRequests => ENABLED IsRateLimited("@a")
    /\ \A id \in undelivered : ENABLED OnNewEvent(id)
    /\ \A q \in Procs :
          calls[q].pc = "idle" => ENABLED GetRoomPreview(q, <<"!r1">>)

\* C38: provided each awaited query returns or fails, every get_room_preview
\* call in flight eventually returns a result or raises; and while calls are
\* in flight, is_rate_limited, on_new_event with its invalidation and the
\* sweep at the start of another call can always run to completion at once.
C38_CallsEndAndSynchronousOpsNeverWait ==
    /\ \A p \in Procs :
          InFlight(calls[p]) ~> calls[p].pc \in {"done", "raised"}
    /\ []((Taken /\ \E p \in Procs : InFlight(calls[p])) => SynchronousOpsReady)

\* C38 witness: while the call of caller 1 waited for db_pool.execute, the
\* event was announced, is_rate_limited answered @a and caller 2 started and
\* reached its membership query.
C38_Witness ==
    /\ calls[1].pc = "db" /\ calls[2].pc = "mem"
    /\ 2 \in calls[1].overlap
    /\ "!r1" \in calls[1].inval
    /\ hist.rl.user = "@a" /\ hist.rl.before = <<>> /\ ~hist.rl.limited

\* A call ended with the exception of db_pool.execute while the other call
\* was still in flight.
C38_WitnessRaised ==
    /\ calls[1].pc = "raised" /\ calls[1].qfailed
    /\ InFlight(calls[2])

\* The state keys, as the event log has them, of the state events of room r
\* and type t among the first n events.
LogStateKeys(r, t, n) ==
    { events[id].state_key :
        id \in { j \in 1..n : /\ events[j].is_state
                               /\ events[j].room_id = r
                               /\ events[j].type = t } }

\* The state-key entries a payload has under type t.
PayloadStateKeys(room_data, t) ==
    IF t \in DOMAIN room_data THEN DOMAIN room_data[t] ELSE {}

\* C39: in the payload of a room a call has aggregated, every tracked type
\* has one state-key entry for each state key the type's events have in the
\* event log: two events with different state keys never share an entry.
C39_DistinctStateKeysKeepDistinctEntries ==
    \A p \in Procs :
        LET c == calls[p] IN
        c.pc = "done" =>
            \A R \in c.qrooms :
                \A t \in Range(config.room_preview_state_event_types) :
                    Cardinality(PayloadStateKeys(c.ret[R], t))
                        = Cardinality(LogStateKeys(R, t, c.qlen))

\* What holds instead: the entries of the payload are the normalised state
\* keys of the log, so two state keys share an entry exactly when
\* NormalizeKey maps them to one key.
C39_EntriesAreNormalisedKeys ==
    \A p \in Procs :
        LET c == calls[p] IN
        c.pc = "done" =>
            \A R \in c.qrooms :
                \A t \in Range(config.room_preview_state_event_types) :
                    PayloadStateKeys(c.ret[R], t)
                        = { IF k \in {"", None} THEN "default" ELSE k :
                              k \in LogStateKeys(R, t, c.qlen) }

\* The log has an event with the empty state key and one with the state key
\* "default", and the aggregated payload has the single entry "default".
C39_Collision ==
    LET c == calls[1] IN
    /\ c.pc = "done" /\ "!r1" \in c.qrooms
    /\ LogStateKeys("!r1", TRACKED_TYPE, c.qlen) = {"", "default"}
    /\ PayloadStateKeys(c.ret["!r1"], TRACKED_TYPE) = {"default"}

\* The room payloads in existence: those the cache holds and those of the
\* results calls have returned.
Payloads ==
    { heap[room_cache[r].data] : r \in DOMAIN room_cache }
    \cup UNION { { calls[p].ret[R] : R \in DOMAIN calls[p].ret } :
                  p \in { q \in Procs : calls[q].pc = "done" } }

\* C40: every top-level key of a payload that is cached or was returned is
\* a configured event type or membership_summary; under every event type
\* there is at least one state key, and each entry under it is a state event
\* of that type; no payload has a key of an untracked type.
C40_PayloadKeysAreTrackedTypes ==
    \A P \in Payloads :
        /\ DOMAIN P \subseteq
              Range(config.room_preview_state_event_types)
                \cup {MEMBERSHIP_SUMMARY_KEY}
        /\ UNTRACKED_TYPE \notin DOMAIN P
        /\ \A t \in (DOMAIN P) \ {MEMBERSHIP_SUMMARY_KEY} :
              /\ DOMAIN P[t] # {}
              /\ \A k \in DOMAIN P[t] :
                    /\ events[P[t][k].event_id].type = t
                    /\ events[P[t][k].event_id].is_state

\* C40 witness: room !r1 has activity roles and state of an untracked type,
\* and no course plan; the payload returned for it, which is also the cached
\* one, has the keys of the roles and of membership_summary and no other.
C40_Witness ==
    LET c == calls[1] IN
    /\ c.pc = "done" /\ "!r1" \in c.qrooms
    /\ \E i, j \in 1..c.qlen :
          /\ events[i].room_id = "!r1" /\ events[i].type = UNTRACKED_TYPE
          /\ events[i].is_state
          /\ events[j].room_id = "!r1"
          /\ events[j].type = PANGEA_ACTIVITY_ROLE_STATE_EVENT_TYPE
    /\ COURSE_PLAN_TYPE \in Range(config.room_preview_state_event_types)
    /\ DOMAIN c.ret["!r1"]
         = {PANGEA_ACTIVITY_ROLE_STATE_EVENT_TYPE, MEMBERSHIP_SUMMARY_KEY}
    /\ "!r1" \in DOMAIN room_cache
    /\ heap[room_cache["!r1"].data] = c.ret["!r1"]

====
